---- MODULE Spec2Model ----
(***************************************************************************)
(* Model of the Discord export analyzer (ExtractData_v4.py): the counter   *)
(* store behind one sqlite3 connection (working view `db`, committed file  *)
(* `disk`), the per-conversation processor process_folder, the driver      *)
(* loop run, and the __main__ wrapper with its KeyboardInterrupt handler.  *)
(*                                                                         *)
(* Abstractions.  A timestamp string is the record [fmt, year]: fmt says   *)
(* whether strptime("%Y-%m-%d %H:%M:%S") accepts it, year is the parsed    *)
(* year.  Message text is a sequence of tokens, emote tokens carrying the  *)
(* (name, id) groups of the emote regex.  An attachment string is a tuple  *)
(* of one-character strings.  Participant ids are naturals ordered like    *)
(* the id strings.  JSON null and a missing key are kept apart.            *)
(***************************************************************************)
EXTENDS Integers, Sequences, FiniteSets, TLC

\* ---------------------------------------------------------------- bounds
NumFolders == 2
MaxRuns == 2
MaxEdits == 1
MaxAttLen == 5
MaxEmotes == 21
MaxUsage == 5
BatchFolders == 101
MaxDelta == 2
MaxRecipients == 3

\* ------------------------------------------------------ program constants
TARGET_YEAR == 2025
CommitEvery == 100

\* ------------------------------------------------------------ containers
EmptyFn == [x \in {} |-> 0]

Put(f, k, v) == [x \in (DOMAIN f) \cup {k} |-> IF x = k THEN v ELSE f[x]]

Folders == 1..NumFolders

\* ------------------------------------------------------- export contents
Ts(y) == [fmt |-> TRUE, year |-> y]
BadTs == [fmt |-> FALSE, year |-> 0]

Emote(name, id) == [emote |-> TRUE, name |-> name, id |-> id]
Text == [emote |-> FALSE, name |-> "", id |-> ""]

Msg(id, ts, contents, att) ==
    [dict |-> TRUE, ID |-> id, Timestamp |-> ts, Contents |-> contents, Attachments |-> att]
NotADict ==
    [dict |-> FALSE, ID |-> "", Timestamp |-> BadTs, Contents |-> << >>, Attachments |-> << >>]

NoGuild == [present |-> "absent", id |-> "", name |-> ""]
NullGuild == [present |-> "null", id |-> "", name |-> ""]
Guild(id, name) == [present |-> "obj", id |-> id, name |-> name]

NoRecipients == [present |-> "absent", list |-> << >>]
Recipients(l) == [present |-> "list", list |-> l]

GuildChannel(id, name, guild) ==
    [type |-> "GUILD_TEXT", id |-> id, name |-> name, recipients |-> NoRecipients, guild |-> guild]
DmChannel(type, id, l) ==
    [type |-> type, id |-> id, name |-> "", recipients |-> Recipients(l), guild |-> NoGuild]

Conv(cf, mf, channel, messages) ==
    [chanFile |-> cf, msgFile |-> mf, channel |-> channel, messages |-> messages]

UrlPngJpg == <<"a", ".", "P", "N", "G", "?", "x", "=", "1", ",", "b", ".", "j", "p", "g">>
UrlNoExt == <<"h", "/", "x">>

Catalogue == <<
    \* 1: empty message list
    Conv(TRUE, TRUE, GuildChannel("g1", "general", Guild("s1", "Srv")), << >>),
    \* 2: newest message in the year before the target, second entry poisoned
    Conv(TRUE, TRUE, DmChannel("DM", "d2", <<1, 2>>),
         <<Msg("m21", Ts(2024), <<Emote("old", "7")>>, UrlPngJpg), NotADict>>),
    \* 3: one target-year message followed by an older one
    Conv(TRUE, TRUE, DmChannel("DM", "d3", <<2, 1>>),
         <<Msg("m31", Ts(2025), <<Emote("wave", "9")>>, << >>),
           Msg("m32", Ts(2024), <<Emote("wave", "9")>>, << >>)>>),
    \* 4: newest message after the target year, target-year message behind it
    Conv(TRUE, TRUE, GuildChannel("g4", "chat", Guild("s1", "Srv")),
         <<Msg("m41", Ts(2026), << >>, << >>),
           Msg("m42", Ts(2025), <<Emote("wave", "9")>>, UrlPngJpg)>>),
    \* 5: descriptor with "guild": null, target-year messages with emotes
    Conv(TRUE, TRUE, GuildChannel("g5", "odd", NullGuild),
         <<Msg("m51", Ts(2025), <<Emote("wave", "9"), Text, Emote("wave", "9")>>, UrlPngJpg)>>),
    \* 6: message file missing
    Conv(TRUE, FALSE, GuildChannel("g6", "gone", Guild("s1", "Srv")), << >>),
    \* 7: newest timestamp does not parse
    Conv(TRUE, TRUE, GuildChannel("g7", "bad", Guild("s1", "Srv")),
         <<Msg("m71", BadTs, << >>, << >>), Msg("m72", Ts(2025), << >>, << >>)>>),
    \* 8: two target-year messages, renamed emote, attachment without extension
    Conv(TRUE, TRUE, GuildChannel("g8", "memes", Guild("s2", "Other")),
         <<Msg("m81", Ts(2025), <<Emote("hi", "9"), Emote("lol", "7")>>, UrlNoExt),
           Msg("m82", Ts(2025), <<Text>>, UrlPngJpg)>>),
    \* 9: target-year message followed by an entry that is not an object
    Conv(TRUE, TRUE, GuildChannel("g9", "mixed", Guild("s2", "Other")),
         <<Msg("m91", Ts(2025), <<Emote("lol", "7")>>, << >>), NotADict>>),
    \* 10: DM whose index label lacks the prefix; a timestamp that does not
    \*     parse between two target-year messages
    Conv(TRUE, TRUE, DmChannel("DM", "d10", <<1, 3>>),
         <<Msg("m101", Ts(2025), <<Emote("wave", "9")>>, << >>),
           Msg("m102", BadTs, <<Emote("lol", "7")>>, << >>),
           Msg("m103", Ts(2025), <<Emote("wave", "9")>>, UrlPngJpg)>>),
    \* 11: DM that the index does not list
    Conv(TRUE, TRUE, DmChannel("DM", "d11", <<1, 2>>),
         <<Msg("m111", Ts(2025), << >>, << >>)>>)
>>

ConvIds == 1..Len(Catalogue)

\* --------------------------------------------------------------- the store
EmptyStore ==
    [channels |-> EmptyFn, emotes |-> EmptyFn, file_types |-> EmptyFn,
     messages |-> EmptyFn, users |-> EmptyFn]

\* faulty variant (sensitivity check): commit() writes nothing to the file
CommitNothing(a) == a

\* faulty variant (sensitivity check): the flag test inverted (result[0] == 0)
AlreadyProcessedFlagInverted(db, folder_name) ==
    /\ folder_name \in DOMAIN db.channels
    /\ db.channels[folder_name].processed = 0

\* faulty variant (sensitivity check): the test reads the message_count column instead of the flag
AlreadyProcessedWrongColumn(db, folder_name) ==
    /\ folder_name \in DOMAIN db.channels
    /\ db.channels[folder_name].message_count = 1

\* SELECT processed FROM channels WHERE folder_name = ?;  result and result[0] == 1
AlreadyProcessed(db, folder_name) ==
    /\ folder_name \in DOMAIN db.channels
    /\ db.channels[folder_name].processed = 1

\* faulty variant (sensitivity check): ON CONFLICT ... SET usage_count = ? (no addition)
update_emote_count_overwriting(emotes, emote_name, emote_id, count) ==
    Put(emotes, emote_id, [emote_name |-> emote_name, usage_count |-> count])

\* faulty variant (sensitivity check): ON CONFLICT ... SET usage_count = usage_count - ?
update_emote_count_subtracting(emotes, emote_name, emote_id, count) ==
    IF emote_id \in DOMAIN emotes
    THEN [emotes EXCEPT ![emote_id] =
              [emote_name |-> emote_name, usage_count |-> @.usage_count - count]]
    ELSE Put(emotes, emote_id, [emote_name |-> emote_name, usage_count |-> count])

\* faulty variant (sensitivity check): ON CONFLICT ... SET usage_count = usage_count + ? (name kept)
update_emote_count_keeping_name(emotes, emote_name, emote_id, count) ==
    IF emote_id \in DOMAIN emotes
    THEN [emotes EXCEPT ![emote_id].usage_count = @ + count]
    ELSE Put(emotes, emote_id, [emote_name |-> emote_name, usage_count |-> count])

\* INSERT ... ON CONFLICT(emote_id) DO UPDATE SET usage_count = usage_count + ?, emote_name = ?
update_emote_count(emotes, emote_name, emote_id, count) ==
    IF emote_id \in DOMAIN emotes
    THEN [emotes EXCEPT ![emote_id] =
              [emote_name |-> emote_name, usage_count |-> @.usage_count + count]]
    ELSE Put(emotes, emote_id, [emote_name |-> emote_name, usage_count |-> count])

\* INSERT ... ON CONFLICT(extension) DO UPDATE SET count = count + ?
update_file_type_count(file_types, extension, count) ==
    IF extension \in DOMAIN file_types
    THEN [file_types EXCEPT ![extension] = @ + count]
    ELSE Put(file_types, extension, count)

\* faulty variant (sensitivity check): INSERT OR REPLACE INTO messages
InsertMessageOrReplace(messages, message_id, row) == Put(messages, message_id, row)

\* INSERT OR IGNORE INTO messages
InsertMessageOrIgnore(messages, message_id, row) ==
    IF message_id \in DOMAIN messages THEN messages ELSE Put(messages, message_id, row)

\* faulty variant (sensitivity check): the list is stored in the order of the descriptor
SortedAsListed(l) == l

\* sorted(): insertion of x into an ascending sequence
RECURSIVE InsertSorted(_, _)
InsertSorted(sorted, x) ==
    IF sorted = << >> THEN <<x>>
    ELSE IF x <= Head(sorted) THEN <<x>> \o sorted
    ELSE <<Head(sorted)>> \o InsertSorted(Tail(sorted), x)

RECURSIVE Sorted(_)
Sorted(l) == IF l = << >> THEN << >> ELSE InsertSorted(Sorted(Tail(l)), Head(l))

\* a nullable column: SQL NULL, or a value
NullStr == [present |-> FALSE, value |-> ""]
NullList == [present |-> FALSE, value |-> << >>]
Value(v) == [present |-> TRUE, value |-> v]

\* _mark_processed: the row written, or the exception of sorted(None) / None.get
MarkRaises(channel_data) ==
    IF channel_data.type \in {"DM", "GROUP_DM"}
    THEN channel_data.recipients.present = "null"
    ELSE channel_data.guild.present = "null"

ChannelRow(channel_data, count, attachments_count) ==
    LET dm == channel_data.type \in {"DM", "GROUP_DM"} IN
    [channel_id |-> channel_data.id,
     channel_type |-> channel_data.type,
     channel_name |-> channel_data.name,
     server_id |-> IF ~dm /\ channel_data.guild.present = "obj"
                   THEN Value(channel_data.guild.id) ELSE NullStr,
     server_name |-> IF ~dm /\ channel_data.guild.present = "obj"
                     THEN Value(channel_data.guild.name) ELSE NullStr,
     recipients |-> IF dm THEN Value(Sorted(channel_data.recipients.list)) ELSE NullList,
     message_count |-> count,
     messages_with_attachments |-> attachments_count,
     processed |-> 1]

\* faulty variant (sensitivity check): the two counts bound to each other's column
MarkProcessedColumnsSwapped(db, folder_name, channel_data, count, attachments_count) ==
    [db EXCEPT !.channels =
        Put(@, folder_name, ChannelRow(channel_data, attachments_count, count))]

\* INSERT OR REPLACE INTO channels ... VALUES (..., 1)
MarkProcessed(db, folder_name, channel_data, count, attachments_count) ==
    [db EXCEPT !.channels =
        Put(@, folder_name, ChannelRow(channel_data, count, attachments_count))]

\* ------------------------------------------------------ feature extractors
\* datetime.strptime(timestamp_str, "%Y-%m-%d %H:%M:%S")
StrptimeOk(ts) == ts.fmt

\* is_target_year: False when the timestamp does not parse
is_target_year(ts) == IF StrptimeOk(ts) THEN ts.year = TARGET_YEAR ELSE FALSE

\* extract_emotes: the (name, id) groups of every emote token, in order
extract_emotes(content) == SelectSeq(content, LAMBDA t : t.emote)

UpperChars == <<"A", "B", "C", "D", "E", "F", "G", "H", "I", "J", "K", "L", "M",
                "N", "O", "P", "Q", "R", "S", "T", "U", "V", "W", "X", "Y", "Z">>
LowerChars == <<"a", "b", "c", "d", "e", "f", "g", "h", "i", "j", "k", "l", "m",
                "n", "o", "p", "q", "r", "s", "t", "u", "v", "w", "x", "y", "z">>
DigitChars == <<"0", "1", "2", "3", "4", "5", "6", "7", "8", "9">>

Range(seq) == {seq[i] : i \in DOMAIN seq}

IsAlnum(c) == c \in Range(UpperChars) \cup Range(LowerChars) \cup Range(DigitChars)

LowerChar(c) ==
    IF c \in Range(UpperChars)
    THEN LowerChars[CHOOSE i \in DOMAIN UpperChars : UpperChars[i] = c]
    ELSE c

IsSpace(c) == c \in {" ", "\t", "\r", "\n"}

\* attachments.replace(',', '\n').split('\n')
RECURSIVE SplitUrls(_, _)
SplitUrls(str, cur) ==
    IF str = << >> THEN <<cur>>
    ELSE IF Head(str) \in {",", "\n"} THEN <<cur>> \o SplitUrls(Tail(str), << >>)
    ELSE SplitUrls(Tail(str), Append(cur, Head(str)))

\* url.strip()
RECURSIVE LStrip(_)
LStrip(str) == IF str # << >> /\ IsSpace(Head(str)) THEN LStrip(Tail(str)) ELSE str

RECURSIVE RStrip(_)
RStrip(str) ==
    IF str # << >> /\ IsSpace(str[Len(str)]) THEN RStrip(SubSeq(str, 1, Len(str) - 1)) ELSE str

Strip(str) == RStrip(LStrip(str))

\* end of the longest alphanumeric run that starts at position i (i - 1 if none)
RECURSIVE RunEnd(_, _)
RunEnd(url, i) ==
    IF i <= Len(url) /\ IsAlnum(url[i]) THEN RunEnd(url, i + 1) ELSE i - 1

\* re.search(r'\.([a-zA-Z0-9]+)(?:\?|$)'): a match starts at the '.' in position i
ExtMatchAt(url, i) ==
    /\ url[i] = "."
    /\ RunEnd(url, i + 1) >= i + 1
    /\ \/ RunEnd(url, i + 1) = Len(url)
       \/ url[RunEnd(url, i + 1) + 1] = "?"

\* faulty variant (sensitivity check): the last match of the pattern instead of the first
RECURSIVE ExtensionsOfLastMatch(_)
ExtensionsOfLastMatch(urls) ==
    IF urls = << >> THEN << >>
    ELSE LET url == Strip(Head(urls))
             hits == {i \in DOMAIN url : ExtMatchAt(url, i)}
         IN  IF url = << >> \/ hits = {}
             THEN ExtensionsOfLastMatch(Tail(urls))
             ELSE LET i == CHOOSE k \in hits : \A h \in hits : k >= h
                      grp == SubSeq(url, i + 1, RunEnd(url, i + 1))
                  IN  <<[k \in DOMAIN grp |-> LowerChar(grp[k])]>>
                          \o ExtensionsOfLastMatch(Tail(urls))

\* extract_file_types
RECURSIVE ExtensionsOf(_)
ExtensionsOf(urls) ==
    IF urls = << >> THEN << >>
    ELSE LET url == Strip(Head(urls))
             hits == {i \in DOMAIN url : ExtMatchAt(url, i)}
         IN  IF url = << >> \/ hits = {}
             THEN ExtensionsOf(Tail(urls))
             ELSE LET i == CHOOSE k \in hits : \A h \in hits : k <= h
                      grp == SubSeq(url, i + 1, RunEnd(url, i + 1))
                  IN  <<[k \in DOMAIN grp |-> LowerChar(grp[k])]>> \o ExtensionsOf(Tail(urls))

extract_file_types(attachments) ==
    IF attachments = << >> THEN << >> ELSE ExtensionsOf(SplitUrls(attachments, << >>))

\* ------------------------------------------------------ process_folder
\* An analyzer: the connection's working view db, the committed file disk,
\* and the three tallies.
SelfId == 1

Analyzer(db, disk) ==
    [db |-> db, disk |-> disk, user_id |-> SelfId,
     processed_count |-> 0, skipped_count |-> 0, error_count |-> 0]

\* Where a KeyboardInterrupt lands in one call of process_folder: stop names
\* the statement boundary at which it propagates ("none": no interrupt);
\* gate / at say that it lands inside the strptime of the newest-message
\* check / of is_target_year for message at, under their bare except clauses.
NoIntr == [stop |-> "none", gate |-> FALSE, at |-> 0]
StopAt(p) == [stop |-> p, gate |-> FALSE, at |-> 0]
InGate == [stop |-> "none", gate |-> TRUE, at |-> 0]
InScan(i) == [stop |-> "none", gate |-> FALSE, at |-> i]

Result(a, outcome) == [a |-> a, outcome |-> outcome]

\* except Exception: error_count += 1 (nothing is rolled back)
HandleException(a) == Result([a EXCEPT !.error_count = @ + 1], "raised")

\* faulty variant (sensitivity check): the skip is tallied but the conversation is not marked
SkipWithoutMark(a, folder_name, channel_data, outcome) ==
    Result([a EXCEPT !.skipped_count = @ + 1], outcome)

\* faulty variant (sensitivity check): the skip paths write their row with processed = 0
SkipAndMarkUnflagged(a, folder_name, channel_data, outcome) ==
    LET skipped == [a EXCEPT !.skipped_count = @ + 1] IN
    IF MarkRaises(channel_data)
    THEN HandleException(skipped)
    ELSE Result([skipped EXCEPT
                    !.db = [MarkProcessed(@, folder_name, channel_data, 0, 0)
                               EXCEPT !.channels[folder_name].processed = 0]],
                outcome)

\* skipped_count += 1; _mark_processed(folder_name, channel_data, 0, 0); return
SkipAndMark(a, folder_name, channel_data, outcome) ==
    LET skipped == [a EXCEPT !.skipped_count = @ + 1] IN
    IF MarkRaises(channel_data)
    THEN HandleException(skipped)
    ELSE Result([skipped EXCEPT !.db = MarkProcessed(@, folder_name, channel_data, 0, 0)],
                outcome)

\* the accumulators of the scan loop
ScanStart(messages) ==
    [count_target_year |-> 0, messages_with_attachments |-> 0,
     emote_counts |-> EmptyFn, emote_names |-> EmptyFn, file_type_counts |-> EmptyFn,
     messages |-> messages, raised |-> FALSE]

RECURSIVE CountEmotes(_, _)
CountEmotes(acc, emotes) ==
    IF emotes = << >> THEN acc
    ELSE LET e == Head(emotes)
             n == IF e.id \in DOMAIN acc.emote_counts THEN acc.emote_counts[e.id] ELSE 0
         IN  CountEmotes([acc EXCEPT !.emote_counts = Put(@, e.id, n + 1),
                                     !.emote_names = Put(@, e.id, e.name)],
                         Tail(emotes))

RECURSIVE CountFileTypes(_, _)
CountFileTypes(counts, file_types) ==
    IF file_types = << >> THEN counts
    ELSE LET ext == Head(file_types)
             n == IF ext \in DOMAIN counts THEN counts[ext] ELSE 0
         IN  CountFileTypes(Put(counts, ext, n + 1), Tail(file_types))

MessageRow(folder_name, message) ==
    [folder_name |-> folder_name,
     timestamp |-> message.Timestamp,
     year |-> message.Timestamp.year,
     has_content |-> IF message.Contents # << >> THEN 1 ELSE 0,
     has_attachments |-> IF message.Attachments # << >> THEN 1 ELSE 0]

\* the body of the scan loop for one target-year message
CountMessage(acc, folder_name, message, store_messages) ==
    LET file_types == extract_file_types(message.Attachments)
        withEmotes == CountEmotes(acc, extract_emotes(message.Contents))
    IN  [withEmotes EXCEPT
            !.count_target_year = @ + 1,
            !.messages_with_attachments = IF file_types # << >> THEN @ + 1 ELSE @,
            !.file_type_counts = CountFileTypes(@, file_types),
            !.messages = IF store_messages
                         THEN InsertMessageOrIgnore(@, message.ID, MessageRow(folder_name, message))
                         ELSE @]

\* for message in messages: ... else: break
RECURSIVE Scan(_, _, _, _, _, _)
Scan(acc, folder_name, messages, i, store_messages, intr) ==
    IF i > Len(messages) THEN acc
    ELSE IF ~messages[i].dict THEN [acc EXCEPT !.raised = TRUE]
    ELSE IF intr.at # i /\ is_target_year(messages[i].Timestamp)
         THEN Scan(CountMessage(acc, folder_name, messages[i], store_messages),
                   folder_name, messages, i + 1, store_messages, intr)
         ELSE acc

\* for emote_id, count in emote_counts.items(): self.update_emote_count(...)
RECURSIVE FlushEmotes(_, _, _)
FlushEmotes(emotes, acc, ids) ==
    IF ids = {} THEN emotes
    ELSE LET id == CHOOSE x \in ids : TRUE IN
         FlushEmotes(update_emote_count(emotes, acc.emote_names[id], id, acc.emote_counts[id]),
                     acc, ids \ {id})

\* for ext, count in file_type_counts.items(): self.update_file_type_count(ext, count)
RECURSIVE FlushFileTypes(_, _, _)
FlushFileTypes(file_types, counts, exts) ==
    IF exts = {} THEN file_types
    ELSE LET ext == CHOOSE x \in exts : TRUE IN
         FlushFileTypes(update_file_type_count(file_types, ext, counts[ext]),
                        counts, exts \ {ext})

\* --- the calls of the flush, one record per call
StoreCall(fn, name, key, count) == [fn |-> fn, name |-> name, key |-> key, count |-> count]

RECURSIVE Repeated(_, _)
Repeated(c, n) == IF n = 0 THEN << >> ELSE <<c>> \o Repeated(c, n - 1)

\* faulty variant (sensitivity check): one call per occurrence, each carrying 1
RECURSIVE EmoteCallsPerOccurrence(_, _)
EmoteCallsPerOccurrence(acc, ids) ==
    IF ids = {} THEN << >>
    ELSE LET id == CHOOSE x \in ids : TRUE IN
         Repeated(StoreCall("update_emote_count", acc.emote_names[id], id, 1),
                  acc.emote_counts[id])
         \o EmoteCallsPerOccurrence(acc, ids \ {id})

\* for emote_id, count in emote_counts.items(): the calls this loop makes
RECURSIVE EmoteCalls(_, _)
EmoteCalls(acc, ids) ==
    IF ids = {} THEN << >>
    ELSE LET id == CHOOSE x \in ids : TRUE IN
         <<StoreCall("update_emote_count", acc.emote_names[id], id, acc.emote_counts[id])>>
         \o EmoteCalls(acc, ids \ {id})

\* for ext, count in file_type_counts.items(): the calls this loop makes
RECURSIVE FileTypeCalls(_, _)
FileTypeCalls(counts, exts) ==
    IF exts = {} THEN << >>
    ELSE LET ext == CHOOSE x \in exts : TRUE IN
         <<StoreCall("update_file_type_count", "", ext, counts[ext])>>
         \o FileTypeCalls(counts, exts \ {ext})

FlushCalls(acc) ==
    EmoteCalls(acc, DOMAIN acc.emote_counts)
    \o FileTypeCalls(acc.file_type_counts, DOMAIN acc.file_type_counts)

\* the store after the calls have been made, in order
RECURSIVE ApplyCalls(_, _)
ApplyCalls(db, calls) ==
    IF calls = << >> THEN db
    ELSE LET c == Head(calls) IN
         ApplyCalls(IF c.fn = "update_emote_count"
                    THEN [db EXCEPT !.emotes = update_emote_count(@, c.name, c.key, c.count)]
                    ELSE [db EXCEPT !.file_types = update_file_type_count(@, c.key, c.count)],
                    Tail(calls))

Flush(db, acc) ==
    [db EXCEPT !.emotes = FlushEmotes(@, acc, DOMAIN acc.emote_counts),
               !.file_types = FlushFileTypes(@, acc.file_type_counts, DOMAIN acc.file_type_counts)]

\* faulty variant (sensitivity check): a parse failure of the newest timestamp is not an error
GateIgnoringParseFailure(first_timestamp, intr) ==
    IF intr.gate THEN "invalid"
    ELSE IF StrptimeOk(first_timestamp) /\ first_timestamp.year < TARGET_YEAR THEN "stale"
    ELSE "scan"

\* the newest-message check: "stale" when its year is before the target year,
\* "invalid" when strptime raises (or an interrupt lands in it), else "scan"
Gate(first_timestamp, intr) ==
    IF intr.gate \/ ~StrptimeOk(first_timestamp) THEN "invalid"
    ELSE IF first_timestamp.year < TARGET_YEAR THEN "stale"
    ELSE "scan"

\* index.json: conversation id -> label.  A label is kept as its parts: whether
\* it starts with "Direct Message with ", the text after that prefix (the
\* whole label otherwise) without a trailing "#0", and whether "#0" ends it.
Label(prefix, name, disc) == [prefix |-> prefix, name |-> name, disc |-> disc]

IndexData ==
    [id \in {"d3", "d10"} |->
        IF id = "d3" THEN Label(TRUE, "Alice", TRUE) ELSE Label(FALSE, "Old Group", FALSE)]

\* extract_username_from_dm_label (the label is never empty here)
extract_username_from_dm_label(label) == label.name

\* faulty variant (sensitivity check): INSERT OR IGNORE INTO users
store_user_mapping_keeping_first(users, user_id, username) ==
    IF user_id = 0 \/ username = "" \/ user_id \in DOMAIN users THEN users
    ELSE Put(users, user_id, username)

\* INSERT OR REPLACE INTO users, unless either argument is empty (`not user_id
\* or not username`; identities are numbers here, the empty one is 0)
store_user_mapping(users, user_id, username) ==
    IF user_id = 0 \/ username = "" THEN users ELSE Put(users, user_id, username)

\* faulty variant (sensitivity check): a global USER_ID exists and equals the --user-id
UserIdGlobalBound == TRUE

\* The module defines no global USER_ID: evaluating `recipient_id != USER_ID`
\* raises NameError at the first recipient.
UserIdGlobalDefined == FALSE

\* faulty variant (sensitivity check): the test of the type left out, USER_ID bound to the --user-id
ResolveIdentityMappingGroups(users, channel_data, index_data, user_id) ==
    IF channel_data.type \notin {"DM", "GROUP_DM"} THEN users
    ELSE IF channel_data.id \notin DOMAIN index_data THEN users
    ELSE LET username == extract_username_from_dm_label(index_data[channel_data.id])
             recipients == channel_data.recipients.list
             others == {i \in DOMAIN recipients : recipients[i] # user_id}
         IN  IF username = "" \/ others = {} THEN users
             ELSE store_user_mapping(users,
                      recipients[CHOOSE i \in others : \A j \in others : i <= j], username)

\* the username mapping block, inside its own try / except Exception
ResolveIdentity(users, channel_data, index_data, user_id) ==
    IF channel_data.type \notin {"DM", "GROUP_DM"} THEN users
    ELSE IF channel_data.id \notin DOMAIN index_data THEN users
    ELSE LET username == extract_username_from_dm_label(index_data[channel_data.id])
             recipients == channel_data.recipients.list
             others == {i \in DOMAIN recipients : recipients[i] # user_id}
         IN  IF username = "" \/ channel_data.type # "DM" THEN users
             ELSE IF recipients = << >> THEN users
             ELSE IF ~UserIdGlobalDefined THEN users
             ELSE IF others = {} THEN users
             ELSE store_user_mapping(users,
                      recipients[CHOOSE i \in others : \A j \in others : i <= j], username)

\* the username mapping block raises (and its own except takes the error)
IdentityRaises(channel_data, index_data) ==
    /\ channel_data.type = "DM"
    /\ channel_data.id \in DOMAIN index_data
    /\ extract_username_from_dm_label(index_data[channel_data.id]) # ""
    /\ channel_data.recipients.list # << >>
    /\ ~UserIdGlobalDefined

\* faulty variant (sensitivity check): an error of the username mapping reaches the outer handler
FlushAndMarkUnwinding(a, folder_name, conv, acc, intr) ==
    LET flushed == [a EXCEPT !.db = Flush([@ EXCEPT !.messages = acc.messages], acc)]
        marked == [flushed EXCEPT
                      !.db = MarkProcessed(@, folder_name, conv.channel, acc.count_target_year,
                                           acc.messages_with_attachments),
                      !.processed_count = @ + 1]
    IN  IF MarkRaises(conv.channel) THEN HandleException(flushed)
        ELSE IF IdentityRaises(conv.channel, IndexData) THEN HandleException(marked)
        ELSE Result([marked EXCEPT !.disk = marked.db], "scanned")

\* the part of process_folder after the scan found target-year messages
FlushAndMark(a, folder_name, conv, acc, intr) ==
    LET flushed == [a EXCEPT !.db = Flush([@ EXCEPT !.messages = acc.messages], acc)]
        marked == [flushed EXCEPT
                      !.db = MarkProcessed(@, folder_name, conv.channel, acc.count_target_year,
                                           acc.messages_with_attachments),
                      !.processed_count = @ + 1]
        resolved == [marked EXCEPT
                        !.db.users = ResolveIdentity(@, conv.channel, IndexData, a.user_id)]
    IN  IF intr.stop = "flushed" THEN Result(flushed, "interrupted")
        ELSE IF MarkRaises(conv.channel) THEN HandleException(flushed)
        ELSE IF intr.stop = "marked" THEN Result(marked, "interrupted")
        ELSE Result([resolved EXCEPT !.disk = resolved.db], "scanned")

\* process_folder from the file check on, for a folder not yet completed
ProcessUnseen(a, folder_name, conv, store_messages, intr) ==
    IF ~conv.chanFile \/ ~conv.msgFile
    THEN Result([a EXCEPT !.error_count = @ + 1], "missing")
    ELSE IF conv.messages = << >>
         THEN SkipAndMark(a, folder_name, conv.channel, "empty")
    ELSE IF ~conv.messages[1].dict THEN HandleException(a)
    ELSE LET gate == Gate(conv.messages[1].Timestamp, intr)
             acc == Scan(ScanStart(a.db.messages), folder_name, conv.messages, 1,
                         store_messages, intr)
             scanned == [a EXCEPT !.db.messages = acc.messages]
         IN  IF gate = "invalid" THEN Result([a EXCEPT !.error_count = @ + 1], "invalid")
             ELSE IF gate = "stale" THEN SkipAndMark(a, folder_name, conv.channel, "stale")
             ELSE IF acc.raised THEN HandleException(scanned)
             ELSE IF intr.stop = "scanned" THEN Result(scanned, "interrupted")
             ELSE IF acc.count_target_year = 0
                  THEN SkipAndMark(scanned, folder_name, conv.channel, "none")
             ELSE FlushAndMark(a, folder_name, conv, acc, intr)

\* faulty variant (sensitivity check): a completed folder is tallied as skipped
process_folder_tallying_skip(a, folder_name, conv, store_messages, intr) ==
    IF AlreadyProcessed(a.db, folder_name)
    THEN Result([a EXCEPT !.skipped_count = @ + 1], "already")
    ELSE ProcessUnseen(a, folder_name, conv, store_messages, intr)

\* faulty variant (sensitivity check): the existence check of the two files left out
process_folder_without_file_check(a, folder_name, conv, store_messages, intr) ==
    IF AlreadyProcessed(a.db, folder_name)
    THEN Result(a, "already")
    ELSE ProcessUnseen(a, folder_name, [conv EXCEPT !.chanFile = TRUE, !.msgFile = TRUE],
                       store_messages, intr)

process_folder(a, folder_name, conv, store_messages, intr) ==
    IF AlreadyProcessed(a.db, folder_name)
    THEN Result(a, "already")
    ELSE ProcessUnseen(a, folder_name, conv, store_messages, intr)

\* --- the earlier generation of the driver (ExtractData_v3.py): the same
\* process_folder without the username mapping block
FlushAndMark_v3(a, folder_name, conv, acc, intr) ==
    LET flushed == [a EXCEPT !.db = Flush([@ EXCEPT !.messages = acc.messages], acc)]
        marked == [flushed EXCEPT
                      !.db = MarkProcessed(@, folder_name, conv.channel, acc.count_target_year,
                                           acc.messages_with_attachments),
                      !.processed_count = @ + 1]
    IN  IF intr.stop = "flushed" THEN Result(flushed, "interrupted")
        ELSE IF MarkRaises(conv.channel) THEN HandleException(flushed)
        ELSE IF intr.stop = "marked" THEN Result(marked, "interrupted")
        ELSE Result([marked EXCEPT !.disk = marked.db], "scanned")

ProcessUnseen_v3(a, folder_name, conv, store_messages, intr) ==
    IF ~conv.chanFile \/ ~conv.msgFile
    THEN Result([a EXCEPT !.error_count = @ + 1], "missing")
    ELSE IF conv.messages = << >>
         THEN SkipAndMark(a, folder_name, conv.channel, "empty")
    ELSE IF ~conv.messages[1].dict THEN HandleException(a)
    ELSE LET gate == Gate(conv.messages[1].Timestamp, intr)
             acc == Scan(ScanStart(a.db.messages), folder_name, conv.messages, 1,
                         store_messages, intr)
             scanned == [a EXCEPT !.db.messages = acc.messages]
         IN  IF gate = "invalid" THEN Result([a EXCEPT !.error_count = @ + 1], "invalid")
             ELSE IF gate = "stale" THEN SkipAndMark(a, folder_name, conv.channel, "stale")
             ELSE IF acc.raised THEN HandleException(scanned)
             ELSE IF intr.stop = "scanned" THEN Result(scanned, "interrupted")
             ELSE IF acc.count_target_year = 0
                  THEN SkipAndMark(scanned, folder_name, conv.channel, "none")
             ELSE FlushAndMark_v3(a, folder_name, conv, acc, intr)

process_folder_v3(a, folder_name, conv, store_messages, intr) ==
    IF AlreadyProcessed(a.db, folder_name)
    THEN Result(a, "already")
    ELSE ProcessUnseen_v3(a, folder_name, conv, store_messages, intr)

\* ------------------------------------------------------------- the program
VARIABLES
    fs,                  \* the export: folder -> index of its contents in Catalogue
    disk,                \* the committed store file
    db,                  \* the store as the open connection sees it
    processed_count, skipped_count, error_count,
    pc,                  \* "idle": no process; "loop": in run's for loop; "done": run
                         \* has returned; "interrupted": KeyboardInterrupt on its way
                         \* to __main__
    all_folders,         \* run: the directory listing
    already_processed,   \* run: SELECT COUNT(*) FROM channels WHERE processed = 1
    processed_this_run,  \* run: folders handed to process_folder so far
    store_messages,      \* the -m flag of this run
    runs,                \* history: runs started
    edits,               \* history: edits made to the export
    swallowed,           \* history: a bare except took an interrupt in this run
    prev,                \* history: how the previous run ended, and its -m flag
    call,                \* a function or a read-only mode used on its own: its name,
                         \* arguments and result (NoCall while the analyzer runs)
    db_file              \* discord_analysis.db exists

vars == <<fs, disk, db, processed_count, skipped_count, error_count, pc, all_folders,
          already_processed, processed_this_run, store_messages, runs, edits, swallowed,
          prev, call, db_file>>

tallies == <<processed_count, skipped_count, error_count>>
loopvars == <<all_folders, already_processed, store_messages, runs>>
history == <<edits, swallowed, prev>>

ConvOf(folder_name) == Catalogue[fs[folder_name]]

\* os.listdir: the folders of the export (the order is the file system's; every
\* assignment of contents to folders is an initial state)
Listing == [i \in 1..Cardinality(DOMAIN fs) |-> i]

NoCall == [fn |-> "none"]

NoRun == [kind |-> "none", store_messages |-> FALSE, swallowed |-> FALSE]

Current ==
    [db |-> db, disk |-> disk, user_id |-> SelfId, processed_count |-> processed_count,
     skipped_count |-> skipped_count, error_count |-> error_count]

Adopt(a) ==
    /\ db' = a.db
    /\ disk' = a.disk
    /\ processed_count' = a.processed_count
    /\ skipped_count' = a.skipped_count
    /\ error_count' = a.error_count

\* no process: nothing but the store file (and the export) exists
NoProcess(store) ==
    /\ Adopt(Analyzer(store, store))
    /\ pc' = "idle"
    /\ all_folders' = << >>
    /\ already_processed' = 0
    /\ processed_this_run' = 0
    /\ store_messages' = FALSE

Init ==
    /\ fs \in [Folders -> ConvIds]
    /\ disk = EmptyStore
    /\ db = EmptyStore
    /\ processed_count = 0 /\ skipped_count = 0 /\ error_count = 0
    /\ pc = "idle"
    /\ all_folders = << >>
    /\ already_processed = 0
    /\ processed_this_run = 0
    /\ store_messages = FALSE
    /\ runs = 0
    /\ edits = 0
    /\ swallowed = FALSE
    /\ prev = NoRun
    /\ call = NoCall
    /\ db_file = FALSE

\* __main__: DiscordAnalyzer(...), then run() up to its for loop
Start(m) ==
    /\ pc = "idle"
    /\ runs < MaxRuns
    /\ Adopt(Analyzer(disk, disk))
    /\ all_folders' = Listing
    /\ already_processed' =
           Cardinality({f \in DOMAIN disk.channels : disk.channels[f].processed = 1})
    /\ processed_this_run' = 0
    /\ store_messages' = m
    /\ runs' = runs + 1
    /\ pc' = "loop"
    /\ swallowed' = FALSE
    /\ UNCHANGED <<fs, edits, prev, call>>
    /\ db_file' = TRUE

\* self.conn.commit()
Commit(a) == [a EXCEPT !.disk = a.db]

\* one iteration of run's loop, the interrupt (if any) landing as intr says
Iteration(intr) ==
    LET folder_name == all_folders[processed_this_run + 1]
        r == process_folder(Current, folder_name, ConvOf(folder_name), store_messages, intr)
    IN  /\ r.outcome # "interrupted"
        /\ Adopt(IF (processed_this_run + 1) % CommitEvery = 0 THEN Commit(r.a) ELSE r.a)
        /\ processed_this_run' = processed_this_run + 1
        /\ swallowed' = (swallowed \/ intr # NoIntr)
        /\ UNCHANGED <<fs, call, db_file, pc, loopvars, edits, prev>>

Step ==
    /\ pc = "loop"
    /\ processed_this_run < Len(all_folders)
    /\ Iteration(NoIntr)

\* the end of run: the final commit, then print_results
Finish ==
    /\ pc = "loop"
    /\ processed_this_run = Len(all_folders)
    /\ Adopt(Commit(Current))
    /\ pc' = "done"
    /\ UNCHANGED <<fs, call, db_file, loopvars, processed_this_run, history>>

\* __main__: finally: analyzer.conn.close(), and the process ends
Exit ==
    /\ pc = "done"
    /\ NoProcess(disk)
    /\ prev' = [kind |-> "normal", store_messages |-> store_messages,
                 swallowed |-> swallowed]
    /\ UNCHANGED <<fs, call, db_file, runs, edits, swallowed>>

\* Ctrl-C between two folders
InterruptBetween ==
    /\ pc = "loop"
    /\ pc' = "interrupted"
    /\ UNCHANGED <<fs, call, db_file, db, disk, tallies, loopvars, processed_this_run, history>>

\* Ctrl-C inside process_folder, outside its bare except clauses
InterruptInFolder(stop) ==
    /\ pc = "loop"
    /\ processed_this_run < Len(all_folders)
    /\ LET folder_name == all_folders[processed_this_run + 1]
           r == process_folder(Current, folder_name, ConvOf(folder_name), store_messages,
                               StopAt(stop))
       IN  /\ r.outcome = "interrupted"
           /\ Adopt(r.a)
    /\ pc' = "interrupted"
    /\ UNCHANGED <<fs, call, db_file, loopvars, processed_this_run, history>>

\* __main__: except KeyboardInterrupt (two prints), finally: analyzer.conn.close().
\* Closing discards what the connection had not committed; the process ends.
MainHandler ==
    /\ pc = "interrupted"
    /\ NoProcess(disk)
    /\ prev' = [kind |-> "interrupt", store_messages |-> store_messages,
                 swallowed |-> swallowed]
    /\ UNCHANGED <<fs, call, db_file, runs, edits, swallowed>>

\* Between two runs the user replaces the files of a conversation that the
\* store holds as completed (a folder not yet completed is read afresh by the
\* next run, as if the export had started out with the new files).
EditTargets == {3, 8}

EditExport(folder_name, c) ==
    /\ pc = "idle"
    /\ edits < MaxEdits
    /\ folder_name \in DOMAIN disk.channels
    /\ fs[folder_name] # c
    /\ fs' = [fs EXCEPT ![folder_name] = c]
    /\ edits' = edits + 1
    /\ UNCHANGED <<db, disk, tallies, pc, loopvars, processed_this_run, swallowed, prev,
                   call, db_file>>

Next ==
    \/ \E m \in BOOLEAN : Start(m)
    \/ Step
    \/ Finish
    \/ Exit
    \/ InterruptBetween
    \/ \E stop \in {"scanned", "flushed", "marked"} : InterruptInFolder(stop)
    \/ MainHandler
    \/ \E f \in Folders, c \in EditTargets : EditExport(f, c)

Spec == Init /\ [][Next]_vars

\* the timestamp check that an interrupt can land in: message i is reached
ScanReaches(conv, i) ==
    /\ conv.chanFile /\ conv.msgFile
    /\ i \in DOMAIN conv.messages
    /\ \A j \in 1..i : conv.messages[j].dict
    /\ Gate(conv.messages[1].Timestamp, NoIntr) = "scan"
    /\ \A j \in 1..(i - 1) : is_target_year(conv.messages[j].Timestamp)

GateReached(conv) ==
    /\ conv.chanFile /\ conv.msgFile
    /\ conv.messages # << >>
    /\ conv.messages[1].dict

\* Ctrl-C inside strptime: the bare except around it takes the KeyboardInterrupt
\* for a parse failure, and the run goes on
SwallowedInterrupt ==
    /\ pc = "loop"
    /\ processed_this_run < Len(all_folders)
    /\ LET folder_name == all_folders[processed_this_run + 1]
           conv == ConvOf(folder_name)
       IN  /\ ~AlreadyProcessed(db, folder_name)
           /\ \/ GateReached(conv) /\ Iteration(InGate)
              \/ \E i \in DOMAIN conv.messages : ScanReaches(conv, i) /\ Iteration(InScan(i))

NextSwallow == Next \/ SwallowedInterrupt

SpecSwallow == Init /\ [][NextSwallow]_vars

\* A store operation fails in process_folder: the INSERT of _mark_processed,
\* reached after the flush, raises sqlite3.Error (disk full, I/O error).  The
\* error is an Exception, taken by the handler of process_folder; SQLite may
\* or may not have rolled the open transaction back on its own (rolled).
StoreFailure(rolled) ==
    /\ pc = "loop"
    /\ processed_this_run < Len(all_folders)
    /\ LET folder_name == all_folders[processed_this_run + 1]
           conv == ConvOf(folder_name)
           r == process_folder(Current, folder_name, conv, store_messages, StopAt("flushed"))
           kept == IF rolled THEN [r.a EXCEPT !.db = r.a.disk] ELSE r.a
           h == HandleException(kept)
       IN  /\ r.outcome = "interrupted"
           /\ ~MarkRaises(conv.channel)
           /\ Adopt(IF (processed_this_run + 1) % CommitEvery = 0 THEN Commit(h.a) ELSE h.a)
    /\ processed_this_run' = processed_this_run + 1
    /\ UNCHANGED <<fs, call, db_file, pc, loopvars, history>>

NextStoreFail == Next \/ \E rolled \in BOOLEAN : StoreFailure(rolled)

SpecStoreFail == Init /\ [][NextStoreFail]_vars

\* A large export, for the commit that run makes every 100 folders: every
\* folder holds an empty message list, but for at most one folder with
\* target-year messages (processed with the commit of process_folder).
BatchExports ==
    {[f \in 1..BatchFolders |-> IF f = k THEN 3 ELSE 1] : k \in {0, 50}}

InitBatch ==
    /\ fs \in BatchExports
    /\ disk = EmptyStore
    /\ db = EmptyStore
    /\ processed_count = 0 /\ skipped_count = 0 /\ error_count = 0
    /\ pc = "idle"
    /\ all_folders = << >>
    /\ already_processed = 0
    /\ processed_this_run = 0
    /\ store_messages = FALSE
    /\ runs = 0
    /\ edits = 0
    /\ swallowed = FALSE
    /\ prev = NoRun
    /\ call = NoCall
    /\ db_file = FALSE

NextBatch ==
    \/ Start(FALSE)
    \/ Step
    \/ Finish
    \/ Exit
    \/ InterruptBetween
    \/ MainHandler

SpecBatch == InitBatch /\ [][NextBatch]_vars

\* the progress line of run (not verbose): printed when the folders handed to
\* process_folder in this run are a multiple of 50, with these figures
ProgressEvery == 50

ProgressPrinted ==
    /\ pc = "loop"
    /\ processed_this_run > 0
    /\ processed_this_run % ProgressEvery = 0

ProgressLine ==
    [done |-> already_processed + processed_this_run,
     total_folders |-> Len(all_folders),
     remaining |-> Len(all_folders) - already_processed - processed_this_run]

\* ------------------------------------------- functions used on their own
\* every variable of the program but call
program == <<fs, disk, db, processed_count, skipped_count, error_count, pc, all_folders,
             already_processed, processed_this_run, store_messages, runs, edits, swallowed,
             prev, db_file>>

\* no analyzer process, no store file, an export of empty conversations
Quiet ==
    /\ fs = [f \in Folders |-> 1]
    /\ disk = EmptyStore
    /\ db = EmptyStore
    /\ processed_count = 0 /\ skipped_count = 0 /\ error_count = 0
    /\ pc = "idle"
    /\ all_folders = << >>
    /\ already_processed = 0
    /\ processed_this_run = 0
    /\ store_messages = FALSE
    /\ runs = 0
    /\ edits = 0
    /\ swallowed = FALSE
    /\ prev = NoRun
    /\ db_file = FALSE

\* the characters attachment strings are made of here
AttChars == {"a", "B", ".", "?", ",", " "}

UrlExample ==
    <<"h", "t", "t", "p", ":", "/", "/", "x", "/", "a", ".", "P", "N", "G", "?", "x", "=", "1",
      ",", "h", "t", "t", "p", ":", "/", "/", "y", "/", "b", ".", "j", "p", "g">>

AttachmentStrings ==
    UNION {[1..n -> AttChars] : n \in 0..MaxAttLen} \cup {UrlExample, UrlPngJpg, UrlNoExt}

CallExtractFileTypes(attachments) ==
    /\ call = NoCall
    /\ call' = [fn |-> "extract_file_types", args |-> attachments,
                ret |-> extract_file_types(attachments)]
    /\ UNCHANGED program

InitExtract == Quiet /\ call = NoCall

NextExtract ==
    /\ call = NoCall
    /\ \E attachments \in AttachmentStrings : CallExtractFileTypes(attachments)

SpecExtract == InitExtract /\ [][NextExtract]_vars

\* SELECT emote_name, emote_id, usage_count FROM emotes ORDER BY usage_count DESC LIMIT 20
TopEmotesLimit == 20

\* print_results: the figures of the summary that come from the emotes table
print_results(store) ==
    LET n == Cardinality(DOMAIN store.emotes)
        top_emotes == IF n <= TopEmotesLimit THEN n ELSE TopEmotesLimit
    IN  [unique_emotes |-> top_emotes, emotes_listed |-> top_emotes]

\* a store with n emotes (their ids the numbers 1..n), each used k times
StoreWithEmotes(n, k) ==
    [EmptyStore EXCEPT
        !.emotes = [id \in 1..n |-> [emote_name |-> "e", usage_count |-> k]]]

CallPrintResults(n, k) ==
    /\ call = NoCall
    /\ call' = [fn |-> "print_results", args |-> StoreWithEmotes(n, k),
                ret |-> print_results(StoreWithEmotes(n, k))]
    /\ UNCHANGED program

InitSummary == Quiet /\ call = NoCall

NextSummary == \E n \in 0..MaxEmotes, k \in 1..MaxUsage : CallPrintResults(n, k)

SpecSummary == InitSummary /\ [][NextSummary]_vars

\* update_emote_count on its own: emotes tables over two identities, a file
\* type already counted, and a call with a name, an identity and a count
EmoteIdsUsed == {"7", "9"}
EmoteNamesUsed == {"hi", "wave"}

EmoteEntries ==
    {[present |-> FALSE, emote_name |-> "", usage_count |-> 0]}
    \cup [present : {TRUE}, emote_name : EmoteNamesUsed, usage_count : 1..MaxDelta]

EmoteTables ==
    {[id \in {x \in EmoteIdsUsed : e[x].present} |->
         [emote_name |-> e[id].emote_name, usage_count |-> e[id].usage_count]]
     : e \in [EmoteIdsUsed -> EmoteEntries]}

StoreWithTable(emotes) ==
    [EmptyStore EXCEPT !.emotes = emotes, !.file_types = Put(EmptyFn, <<"p", "n", "g">>, 1)]

CallUpdateEmoteCount(emotes, emote_name, emote_id, count) ==
    /\ call = NoCall
    /\ call' = [fn |-> "update_emote_count",
                args |-> [store |-> StoreWithTable(emotes), emote_name |-> emote_name,
                          emote_id |-> emote_id, count |-> count],
                ret |-> [StoreWithTable(emotes) EXCEPT
                            !.emotes = update_emote_count(@, emote_name, emote_id, count)]]
    /\ UNCHANGED program

InitUpsert == Quiet /\ call = NoCall

NextUpsert ==
    /\ call = NoCall
    /\ \E emotes \in EmoteTables, emote_name \in EmoteNamesUsed, emote_id \in EmoteIdsUsed,
          count \in 1..MaxDelta :
           CallUpdateEmoteCount(emotes, emote_name, emote_id, count)

SpecUpsert == InitUpsert /\ [][NextUpsert]_vars

\* _mark_processed on its own: two one-to-one or multi-party descriptors, or
\* one descriptor of a community channel
RecipientIds == {1, 2, 3}

RecipientLists == UNION {[1..n -> RecipientIds] : n \in 0..MaxRecipients}

GuildDescriptors ==
    {[GuildChannel("g1", "general", guild) EXCEPT !.type = type, !.recipients = recipients] :
        guild \in {Guild("s1", "Srv"), Guild("s2", "Other")},
        type \in {"GUILD_TEXT", "PUBLIC_THREAD", "UNKNOWN"},
        recipients \in {NoRecipients, Recipients(<<2, 1>>)}}

\* the channels rows _mark_processed writes for the descriptors, one folder each
RowsOf(descriptors) ==
    [i \in DOMAIN descriptors |->
        MarkProcessed(EmptyStore, i, descriptors[i], 1, 0).channels[i]]

CallMarkProcessed(descriptors) ==
    /\ call = NoCall
    /\ call' = [fn |-> "_mark_processed", args |-> descriptors, ret |-> RowsOf(descriptors)]
    /\ UNCHANGED program

InitMark == Quiet /\ call = NoCall

NextMark ==
    \/ /\ call = NoCall
       /\ \E t1, t2 \in {"DM", "GROUP_DM"}, l1, l2 \in RecipientLists :
              CallMarkProcessed(<<DmChannel(t1, "d1", l1), DmChannel(t2, "d2", l2)>>)
    \/ /\ call = NoCall
       /\ \E d \in GuildDescriptors : CallMarkProcessed(<<d>>)

SpecMark == InitMark /\ [][NextMark]_vars

\* the username mapping block on its own: a descriptor of any type, an index
\* with any labels for two channel ids, and a users table
IndexLabels == {Label(TRUE, "Alice", TRUE), Label(FALSE, "Old Group", FALSE)}

IndexTables ==
    UNION {[ids -> IndexLabels] : ids \in SUBSET {"d3", "d10"}}

MappedDescriptors ==
    {[DmChannel(type, id, l) EXCEPT !.guild = guild] :
        type \in {"DM", "GROUP_DM", "GUILD_TEXT"}, id \in {"d3", "d10"},
        l \in {<< >>, <<1, 2>>, <<2, 1>>, <<1, 2, 3>>},
        guild \in {NoGuild, Guild("s1", "Srv")}}

UsersTables == {EmptyFn, Put(EmptyFn, 2, "Bob")}

CallResolveIdentity(users, channel_data, index_data) ==
    /\ call = NoCall
    /\ call' = [fn |-> "map_username",
                args |-> [users |-> users, channel_data |-> channel_data,
                          index_data |-> index_data],
                ret |-> ResolveIdentity(users, channel_data, index_data, SelfId)]
    /\ UNCHANGED program

InitIdentity == Quiet /\ call = NoCall

NextIdentity ==
    /\ call = NoCall
    /\ \E users \in UsersTables, channel_data \in MappedDescriptors,
          index_data \in IndexTables :
           CallResolveIdentity(users, channel_data, index_data)

SpecIdentity == InitIdentity /\ [][NextIdentity]_vars

\* process_folder on its own: a conversation of the catalogue, with its own
\* descriptor or with one of an unexpected shape ("guild": null,
\* "recipients": null), met by an analyzer whose store holds the folder as
\* completed or does not hold it
OddDescriptors ==
    {GuildChannel("g5", "odd", NullGuild),
     [DmChannel("DM", "d3", << >>) EXCEPT !.recipients = [present |-> "null", list |-> << >>]]}

ConversationsMet ==
    Range(Catalogue)
    \cup {[Catalogue[c] EXCEPT !.channel = d] : c \in ConvIds, d \in OddDescriptors}

StoreHolding(completed) ==
    IF completed
    THEN MarkProcessed(EmptyStore, 1, GuildChannel("g1", "general", Guild("s1", "Srv")), 0, 0)
    ELSE EmptyStore

CallProcessFolder(conv, m, completed) ==
    /\ call = NoCall
    /\ call' = [fn |-> "process_folder",
                args |-> [conv |-> conv, store_messages |-> m, completed |-> completed],
                ret |-> process_folder(Analyzer(StoreHolding(completed), StoreHolding(completed)),
                                       1, conv, m, NoIntr)]
    /\ UNCHANGED program

InitOutcome == Quiet /\ call = NoCall

NextOutcome ==
    /\ call = NoCall
    /\ \E conv \in ConversationsMet, m \in BOOLEAN, completed \in BOOLEAN :
           CallProcessFolder(conv, m, completed)

SpecOutcome == InitOutcome /\ [][NextOutcome]_vars

\* store_user_mapping on its own: a users table over three identities, and a
\* call with an identity and a name, either of which may be empty
UserNames == {"Alice", "Bob"}

UsersOver(ids) == [ids -> UserNames]

CallStoreUserMapping(users, user_id, username) ==
    /\ call = NoCall
    /\ call' = [fn |-> "store_user_mapping",
                args |-> [users |-> users, user_id |-> user_id, username |-> username],
                ret |-> store_user_mapping(users, user_id, username)]
    /\ UNCHANGED program

InitMapping == Quiet /\ call = NoCall

NextMapping ==
    /\ call = NoCall
    /\ \E ids \in SUBSET RecipientIds :
           \E users \in UsersOver(ids), user_id \in RecipientIds \cup {0},
              username \in UserNames \cup {""} :
               CallStoreUserMapping(users, user_id, username)

SpecMapping == InitMapping /\ [][NextMapping]_vars

\* ------------------------------------------------------- read-only modes
\* what a read-only mode leaves behind: the store file, whether it exists, and
\* what the mode reported
ReadOutcome(store, exists, out) == [disk |-> store, db_file |-> exists, out |-> out]

\* what was printed or returned: its kind, and the rows or figures
Report(status, rows) == [status |-> status, rows |-> rows]

\* WHERE ... LIKE '%pattern%' on the column a mode searches (the names of the
\* model never contain one another: LIKE is equality here)
Matches(mode, store, pattern) ==
    IF mode = "--server"
    THEN {f \in DOMAIN store.channels : store.channels[f].server_name = Value(pattern)}
    ELSE IF mode = "--emote"
    THEN {id \in DOMAIN store.emotes : store.emotes[id].emote_name = pattern}
    ELSE {u \in DOMAIN store.users : store.users[u] = pattern}

\* faulty variant (sensitivity check): no os.path.exists test, sqlite3.connect makes the file
lookup_mode_connecting_first(mode, pattern, store, exists) ==
    IF ~exists THEN ReadOutcome(store, TRUE, Report("raised", {}))
    ELSE ReadOutcome(store, exists, Report("rows", Matches(mode, store, pattern)))

\* __main__ with --server, --emote or --user
lookup_mode(mode, pattern, store, exists) ==
    IF ~exists THEN ReadOutcome(store, exists, Report("Database not found", {}))
    ELSE ReadOutcome(store, exists, Report("rows", Matches(mode, store, pattern)))

RECURSIVE SumMessageCount(_, _)
SumMessageCount(channels, fset) ==
    IF fset = {} THEN 0
    ELSE LET f == CHOOSE x \in fset : TRUE IN
         channels[f].message_count + SumMessageCount(channels, fset \ {f})

\* CreateWebsite_v2.get_stats_data, called once __main__ has found the file
get_stats_data(store) ==
    IF DOMAIN store.channels = {} THEN ReadOutcome(store, TRUE, Report("No data found", {}))
    ELSE ReadOutcome(store, TRUE,
             Report("stats", {SumMessageCount(store.channels, DOMAIN store.channels)}))

Modes == {"--server", "--emote", "--user"}
Patterns == {"Srv", "wave", "Alice", "zzz"}

ReadStore(fn, r) ==
    /\ pc = "idle"
    /\ call = NoCall
    /\ call' = [fn |-> fn, ret |-> r.out]
    /\ disk' = r.disk
    /\ db' = r.disk
    /\ db_file' = r.db_file
    /\ UNCHANGED <<fs, tallies, pc, loopvars, processed_this_run, history>>

LookupMode(mode, pattern) == ReadStore(mode, lookup_mode(mode, pattern, disk, db_file))

GetStats == db_file /\ ReadStore("get_stats_data", get_stats_data(disk))

NextRead ==
    \/ \E m \in BOOLEAN : Start(m)
    \/ Step
    \/ Finish
    \/ Exit
    \/ \E mode \in Modes, pattern \in Patterns : LookupMode(mode, pattern)
    \/ GetStats

SpecRead == Init /\ [][NextRead]_vars

\* ------------------------------------------------------ what the claims use
\* a completed row, read directly off a store
HasCompletedRow(store, f) ==
    /\ f \in DOMAIN store.channels
    /\ store.channels[f].processed = 1

AllCompleted(store) == \A f \in Folders : HasCompletedRow(store, f)

CountIn(table, key) == IF key \in DOMAIN table THEN table[key] ELSE 0
UsageIn(store, id) == IF id \in DOMAIN store.emotes THEN store.emotes[id].usage_count ELSE 0

\* the descriptor has the shape _mark_processed expects
WellFormedDescriptor(channel_data) ==
    /\ channel_data.guild.present # "null"
    /\ channel_data.recipients.present # "null"

Readable(conv) == conv.chanFile /\ conv.msgFile

\* what one completed pass over a conversation hands to update_emote_count and
\* update_file_type_count: the tallies of the scan when the scan is flushed
Tally(conv) ==
    Scan(ScanStart(EmptyFn), 0, conv.messages, 1, FALSE, NoIntr)

Flushed(conv) ==
    /\ Readable(conv)
    /\ conv.messages # << >>
    /\ conv.messages[1].dict
    /\ Gate(conv.messages[1].Timestamp, NoIntr) = "scan"
    /\ ~Tally(conv).raised
    /\ Tally(conv).count_target_year > 0

EmoteIncrement(conv, id) == IF Flushed(conv) THEN CountIn(Tally(conv).emote_counts, id) ELSE 0
ExtIncrement(conv, ext) == IF Flushed(conv) THEN CountIn(Tally(conv).file_type_counts, ext) ELSE 0

RECURSIVE SumEmote(_, _, _)
SumEmote(store, fset, id) ==
    IF fset = {} THEN 0
    ELSE LET f == CHOOSE x \in fset : TRUE IN
         (IF HasCompletedRow(store, f) THEN EmoteIncrement(ConvOf(f), id) ELSE 0)
         + SumEmote(store, fset \ {f}, id)

RECURSIVE SumExt(_, _, _)
SumExt(store, fset, ext) ==
    IF fset = {} THEN 0
    ELSE LET f == CHOOSE x \in fset : TRUE IN
         (IF HasCompletedRow(store, f) THEN ExtIncrement(ConvOf(f), ext) ELSE 0)
         + SumExt(store, fset \ {f}, ext)

CatalogueEmoteIds ==
    UNION {UNION {{t.id : t \in Range(extract_emotes(m.Contents))} : m \in Range(c.messages)}
           : c \in Range(Catalogue)}

CatalogueExts ==
    UNION {UNION {Range(extract_file_types(m.Attachments)) : m \in Range(c.messages)}
           : c \in Range(Catalogue)}

\* every increment and every message record in the store belongs to a
\* conversation the store holds as completed, and every completed
\* conversation's increments are there
IncrementsMatchFlags(store) ==
    /\ \A id \in CatalogueEmoteIds \cup DOMAIN store.emotes :
           UsageIn(store, id) = SumEmote(store, Folders, id)
    /\ \A ext \in CatalogueExts \cup DOMAIN store.file_types :
           CountIn(store.file_types, ext) = SumExt(store, Folders, ext)
    /\ \A m \in DOMAIN store.messages : HasCompletedRow(store, store.messages[m].folder_name)

\* run's loop is at folder f: the next step is process_folder on f
AtFolder(f) ==
    /\ pc = "loop"
    /\ processed_this_run < Len(all_folders)
    /\ all_folders[processed_this_run + 1] = f

\* the step is an iteration of run's loop: process_folder on f returns
Processes(f) == AtFolder(f) /\ processed_this_run' = processed_this_run + 1

\* the store one run without interrupt leaves, started on an empty store
RECURSIVE RunFrom(_, _, _)
RunFrom(a, i, m) ==
    IF i > Len(Listing) THEN Commit(a)
    ELSE LET r == process_folder(a, Listing[i], ConvOf(Listing[i]), m, NoIntr) IN
         RunFrom(IF i % CommitEvery = 0 THEN Commit(r.a) ELSE r.a, i + 1, m)

UninterruptedRun(m) == RunFrom(Analyzer(EmptyStore, EmptyStore), 1, m).disk

\* ---------------------------------------------------------------- claims
\* C1: in every committed state of the store, the emote and file-extension
\* increments and the message records of a conversation are present if and
\* only if its channels row is marked processed; increments applied before
\* process_folder failed are made durable by no later commit.
C1_PerConversationAtomicity ==
    edits = 0 => IncrementsMatchFlags(disk)

\* C2: once every conversation of the export is completed in the committed
\* store, no step of a later run changes any table of the store; at the end of
\* a run that found every conversation completed, each emote's count is the
\* sum of the conversations' increments (k, not 2k).
C2_SecondRunChangesNothing ==
    /\ [][AllCompleted(disk) => disk' = disk]_vars
    /\ []((pc = "done" /\ already_processed = NumFolders /\ edits = 0) =>
             \A id \in CatalogueEmoteIds : UsageIn(disk, id) = SumEmote(disk, Folders, id))

C2_Witness ==
    /\ pc = "done"
    /\ runs = 2
    /\ already_processed = NumFolders
    /\ edits = 0
    /\ \E id \in CatalogueEmoteIds : UsageIn(disk, id) > 0

\* the emote tokens with identity id in the messages of the target year
RECURSIVE TokensIn(_, _)
TokensIn(content, id) ==
    IF content = << >> THEN 0
    ELSE (IF Head(content).emote /\ Head(content).id = id THEN 1 ELSE 0)
         + TokensIn(Tail(content), id)

RECURSIVE OccurrencesIn(_, _)
OccurrencesIn(messages, id) ==
    IF messages = << >> THEN 0
    ELSE LET m == Head(messages) IN
         (IF m.dict /\ m.Timestamp.fmt /\ m.Timestamp.year = TARGET_YEAR
          THEN TokensIn(m.Contents, id) ELSE 0)
         + OccurrencesIn(Tail(messages), id)

RECURSIVE SumOccurrences(_, _, _)
SumOccurrences(store, fset, id) ==
    IF fset = {} THEN 0
    ELSE LET f == CHOOSE x \in fset : TRUE IN
         (IF HasCompletedRow(store, f) THEN OccurrencesIn(ConvOf(f).messages, id) ELSE 0)
         + SumOccurrences(store, fset \ {f}, id)

\* C3: between conversations, every emote's usage_count equals the number of
\* occurrences of that identity in the target-year messages of the
\* conversations marked completed.
C3_EmoteCountExact ==
    (pc \in {"loop", "done"} /\ edits = 0) =>
        \A id \in CatalogueEmoteIds : UsageIn(db, id) = SumOccurrences(db, Folders, id)

\* C4: a run restarted after an interrupted one ends with the store that one
\* uninterrupted run over the same export produces.
C4_ResumeEqualsUninterrupted ==
    (/\ pc = "done"
     /\ runs = 2
     /\ edits = 0
     /\ prev.kind = "interrupt"
     /\ prev.store_messages = store_messages) => disk = UninterruptedRun(store_messages)

\* C5: when the user interrupts the run, every conversation processed and
\* marked completed before the interrupt is in the committed store when the
\* connection is closed.
C5_FinalCommitOnInterrupt ==
    [][(pc = "interrupted" /\ pc' = "idle") =>
          \A i \in 1..processed_this_run :
              HasCompletedRow(db, all_folders[i]) => HasCompletedRow(disk', all_folders[i])]_vars

\* C6: after a run in which the user's interrupt was delivered, the committed
\* store holds no conversation's increments without its completion flag and no
\* completion flag without its increments.
C6_InterruptLeavesResumableStore ==
    (/\ pc = "idle"
     /\ edits = 0
     /\ prev.kind = "interrupt" \/ prev.swallowed) => IncrementsMatchFlags(disk)

\* C7: process_folder on a folder whose row has processed = 1 writes to no
\* table and changes none of processed_count, skipped_count, error_count,
\* whatever the folder's files now contain (the loop's own commit aside).
C7_SkipHasNoSideEffects ==
    [][\A f \in Folders :
          (Processes(f) /\ HasCompletedRow(db, f)) =>
              /\ db' = db
              /\ disk' = disk \/ (processed_this_run + 1) % CommitEvery = 0
              /\ UNCHANGED tallies]_vars

\* a completed folder whose files were replaced has been handed to
\* process_folder, and nothing was tallied or rewritten
C7_Witness ==
    /\ pc = "loop"
    /\ edits = 1
    /\ processed_this_run >= 1
    /\ HasCompletedRow(db, all_folders[1])
    /\ db.channels[all_folders[1]].channel_id # ConvOf(all_folders[1]).channel.id
    /\ processed_count = 0 /\ skipped_count = 0 /\ error_count = 0
    /\ db = disk

\* C8: a row enters the channels table only through process_folder on its
\* folder and enters it completed; once a completed row is committed, no step
\* of this or a later run changes its flag, message count or attachment count.
C8_CompletedIsTerminal ==
    [][\A f \in Folders :
          /\ (f \notin DOMAIN db.channels /\ f \in DOMAIN db'.channels) =>
                 (AtFolder(f) /\ db'.channels[f].processed = 1)
          /\ HasCompletedRow(disk, f) =>
                 /\ HasCompletedRow(disk', f)
                 /\ disk'.channels[f].message_count = disk.channels[f].message_count
                 /\ disk'.channels[f].messages_with_attachments
                        = disk.channels[f].messages_with_attachments]_vars

\* a later run has gone past a committed completed row whose files now hold
\* target-year messages the row does not count
C8_Witness ==
    /\ pc = "done"
    /\ runs = 2
    /\ edits = 1
    /\ \E f \in Folders :
           /\ HasCompletedRow(disk, f)
           /\ Flushed(ConvOf(f))
           /\ disk.channels[f].message_count # Tally(ConvOf(f)).count_target_year

\* the newest message parses and its year is before the target year
NewestIsStale(conv) ==
    /\ Readable(conv)
    /\ conv.messages # << >>
    /\ conv.messages[1].dict
    /\ conv.messages[1].Timestamp.fmt
    /\ conv.messages[1].Timestamp.year < TARGET_YEAR

\* C9: when the newest message parses to a year before the target year,
\* process_folder (on a descriptor of the expected shape) marks the
\* conversation completed with counts 0 and 0, changes no emote, extension or
\* message entry, and inspects no other message: an invalid second message
\* raises no error.
C9_NewestFirstEarlyExit ==
    [][\A f \in Folders :
          (/\ Processes(f)
           /\ ~HasCompletedRow(db, f)
           /\ NewestIsStale(ConvOf(f))
           /\ WellFormedDescriptor(ConvOf(f).channel)) =>
              /\ HasCompletedRow(db', f)
              /\ db'.channels[f].message_count = 0
              /\ db'.channels[f].messages_with_attachments = 0
              /\ db'.emotes = db.emotes
              /\ db'.file_types = db.file_types
              /\ db'.messages = db.messages
              /\ error_count' = error_count
              /\ skipped_count' = skipped_count + 1
              /\ processed_count' = processed_count]_vars

\* the early exit was taken for a conversation whose second message is invalid
C9_Witness ==
    /\ pc = "loop"
    /\ processed_this_run = 1
    /\ runs = 1
    /\ LET conv == ConvOf(all_folders[1]) IN
           /\ NewestIsStale(conv)
           /\ Len(conv.messages) >= 2
           /\ ~conv.messages[2].dict
    /\ HasCompletedRow(db, all_folders[1])
    /\ db.channels[all_folders[1]].message_count = 0
    /\ skipped_count = 1
    /\ error_count = 0

\* every message is an object with a parseable timestamp
AllParse(messages) == \A i \in DOMAIN messages : messages[i].dict /\ messages[i].Timestamp.fmt

\* the target-year messages in front of the first message of an earlier year
RECURSIVE TargetYearPrefixCount(_)
TargetYearPrefixCount(messages) ==
    IF messages = << >> THEN 0
    ELSE IF Head(messages).Timestamp.year < TARGET_YEAR THEN 0
    ELSE (IF Head(messages).Timestamp.year = TARGET_YEAR THEN 1 ELSE 0)
         + TargetYearPrefixCount(Tail(messages))

\* C10: for a message list whose newest message's year is not less than the
\* target year, the stored message_count is the number of target-year messages
\* in front of the first message whose year is less than the target year.
C10_ScanExtent ==
    \A f \in Folders :
        (/\ edits = 0
         /\ HasCompletedRow(db, f)
         /\ Readable(ConvOf(f))
         /\ ConvOf(f).messages # << >>
         /\ AllParse(ConvOf(f).messages)
         /\ ConvOf(f).messages[1].Timestamp.year >= TARGET_YEAR
         /\ WellFormedDescriptor(ConvOf(f).channel)) =>
            db.channels[f].message_count = TargetYearPrefixCount(ConvOf(f).messages)

\* a message behind the newest one has a timestamp that does not parse, and
\* every timestamp that parses is of the target year
UnparseableInScan(conv) ==
    /\ Readable(conv)
    /\ conv.messages # << >>
    /\ \A i \in DOMAIN conv.messages : conv.messages[i].dict
    /\ conv.messages[1].Timestamp.fmt
    /\ \E i \in DOMAIN conv.messages : i > 1 /\ ~conv.messages[i].Timestamp.fmt
    /\ \A i \in DOMAIN conv.messages :
           conv.messages[i].Timestamp.fmt => conv.messages[i].Timestamp.year = TARGET_YEAR

RECURSIVE TargetYearCount(_)
TargetYearCount(messages) ==
    IF messages = << >> THEN 0
    ELSE (IF Head(messages).Timestamp.fmt /\ Head(messages).Timestamp.year = TARGET_YEAR
          THEN 1 ELSE 0)
         + TargetYearCount(Tail(messages))

\* C11: when a message behind the newest one has a timestamp that does not
\* parse, only that message is left out: the conversation is marked completed
\* and its message_count counts the target-year messages on both sides of it.
C11_UnparseableInScanSkipped ==
    \A f \in Folders :
        (/\ edits = 0
         /\ f \in DOMAIN db.channels
         /\ UnparseableInScan(ConvOf(f))
         /\ WellFormedDescriptor(ConvOf(f).channel)) =>
            /\ HasCompletedRow(db, f)
            /\ db.channels[f].message_count = TargetYearCount(ConvOf(f).messages)

\* the newest message is an object whose timestamp does not parse
NewestUnparseable(conv) ==
    /\ Readable(conv)
    /\ conv.messages # << >>
    /\ conv.messages[1].dict
    /\ ~conv.messages[1].Timestamp.fmt

\* C12: when the newest message's timestamp does not parse, process_folder
\* writes nothing to the store, leaves the conversation without a completed
\* row, adds one to error_count and nothing to the other tallies; as no row
\* is ever written, every later run processes the conversation again.
C12_UnparseableGateIsRetried ==
    /\ [](\A f \in Folders : NewestUnparseable(ConvOf(f)) => f \notin DOMAIN db.channels)
    /\ [][\A f \in Folders :
             (Processes(f) /\ NewestUnparseable(ConvOf(f))) =>
                 /\ db' = db
                 /\ disk' = disk \/ (processed_this_run + 1) % CommitEvery = 0
                 /\ f \notin DOMAIN db'.channels
                 /\ error_count' = error_count + 1
                 /\ processed_count' = processed_count
                 /\ skipped_count' = skipped_count]_vars

\* the second run has processed the conversation again and counted the error again
C12_Witness ==
    /\ pc = "loop"
    /\ runs = 2
    /\ prev.kind = "normal"
    /\ processed_this_run = 1
    /\ NewestUnparseable(ConvOf(all_folders[1]))
    /\ error_count = 1
    /\ all_folders[1] \notin DOMAIN db.channels

\* C13: when channel.json or messages.json is missing, process_folder leaves
\* the store as it is, writes no row for the folder, adds one to error_count
\* only, and the run goes on with the next folder; the folder has no row in
\* any state, so every later run takes the same path again.
C13_MissingFilesAreRetried ==
    /\ [](\A f \in Folders : ~Readable(ConvOf(f)) => f \notin DOMAIN db.channels)
    /\ [][\A f \in Folders :
             (Processes(f) /\ ~Readable(ConvOf(f))) =>
                 /\ db' = db
                 /\ disk' = disk \/ (processed_this_run + 1) % CommitEvery = 0
                 /\ error_count' = error_count + 1
                 /\ processed_count' = processed_count
                 /\ skipped_count' = skipped_count
                 /\ pc' = "loop"]_vars

\* the second run met the folder without its message file again, counted the
\* error again and went on to the end
C13_Witness ==
    /\ pc = "done"
    /\ runs = 2
    /\ prev.kind = "normal"
    /\ ~Readable(ConvOf(all_folders[1]))
    /\ error_count >= 1
    /\ all_folders[1] \notin DOMAIN disk.channels
    /\ HasCompletedRow(disk, all_folders[2])

\* the message list is empty, or its newest message is of an earlier year, or
\* all its messages parse and none is of the target year
ZeroCount(conv) ==
    /\ Readable(conv)
    /\ \/ conv.messages = << >>
       \/ NewestIsStale(conv)
       \/ /\ AllParse(conv.messages)
          /\ \A i \in DOMAIN conv.messages : conv.messages[i].Timestamp.year # TARGET_YEAR

\* C14: process_folder marks a conversation with an empty message list or
\* without target-year messages completed with counts 0 and 0, and that row
\* is in the committed store when the process ends, however it ends, so that
\* no later run scans the conversation again.
C14_ZeroCountCompletionIsFinal ==
    /\ [][\A f \in Folders :
             (/\ Processes(f)
              /\ ~HasCompletedRow(db, f)
              /\ ZeroCount(ConvOf(f))
              /\ WellFormedDescriptor(ConvOf(f).channel)) =>
                 /\ HasCompletedRow(db', f)
                 /\ db'.channels[f].message_count = 0
                 /\ db'.channels[f].messages_with_attachments = 0]_vars
    /\ [][(pc # "idle" /\ pc' = "idle") =>
             \A f \in Folders :
                 (HasCompletedRow(db, f) /\ ZeroCount(ConvOf(f))) => HasCompletedRow(disk', f)]_vars

\* a one-to-one conversation that index.json lists under a label
\* "Direct Message with <name>[#0]"
LabelledDm(channel_data) ==
    /\ channel_data.type = "DM"
    /\ channel_data.recipients.present = "list"
    /\ channel_data.id \in DOMAIN IndexData
    /\ IndexData[channel_data.id].prefix

\* the participants other than the --user-id of the run
Others(channel_data) == {r \in Range(channel_data.recipients.list) : r # SelfId}

\* C15: once a one-to-one conversation with target-year messages, listed in
\* index.json as "Direct Message with <name>[#0]", is marked completed, the
\* users table maps the participant that is not the --user-id to <name>.
C15_OneToOneIdentityResolved ==
    \A f \in Folders :
        (/\ edits = 0
         /\ HasCompletedRow(db, f)
         /\ db.channels[f].message_count > 0
         /\ LabelledDm(ConvOf(f).channel)) =>
            \A r \in Others(ConvOf(f).channel) :
                /\ r \in DOMAIN db.users
                /\ db.users[r] = IndexData[ConvOf(f).channel.id].name

\* a one-to-one conversation that index.json does not list, or lists under a
\* label that does not start with "Direct Message with "
UnlabelledDm(channel_data) ==
    /\ channel_data.type = "DM"
    /\ \/ channel_data.id \notin DOMAIN IndexData
       \/ ~IndexData[channel_data.id].prefix

C17_EnrichmentFailureKeepsAggregation ==
    [][\A f \in Folders :
          (/\ Processes(f)
           /\ ~HasCompletedRow(db, f)
           /\ Flushed(ConvOf(f))
           /\ WellFormedDescriptor(ConvOf(f).channel)
           /\ IdentityRaises(ConvOf(f).channel, IndexData)) =>
              /\ HasCompletedRow(disk', f)
              /\ disk'.channels[f].message_count = Tally(ConvOf(f)).count_target_year
              /\ \A id \in CatalogueEmoteIds :
                     UsageIn(disk', id) = UsageIn(db, id) + EmoteIncrement(ConvOf(f), id)
              /\ \A ext \in CatalogueExts :
                     CountIn(disk'.file_types, ext)
                         = CountIn(db.file_types, ext) + ExtIncrement(ConvOf(f), ext)
              /\ error_count' = error_count
              /\ processed_count' = processed_count + 1
              /\ pc' = "loop"]_vars

\* the mapping raised for the first folder (a one-to-one conversation with
\* emotes and attachments), its counts are committed, no error is tallied,
\* and the loop has gone on to the second folder
C17_Witness ==
    /\ pc = "loop"
    /\ processed_this_run = 2
    /\ IdentityRaises(ConvOf(all_folders[1]).channel, IndexData)
    /\ Flushed(ConvOf(all_folders[1]))
    /\ HasCompletedRow(disk, all_folders[1])
    /\ \E id \in CatalogueEmoteIds : UsageIn(disk, id) > 0
    /\ error_count = 0
    /\ disk.users = EmptyFn

\* C18: when a store operation raises a database error while a conversation
\* is being processed, the run does not go on with the next conversation.
C18_StoreFailureIsFatal ==
    [][(\E rolled \in BOOLEAN : StoreFailure(rolled)) => pc' # "loop"]_vars

\* the conversations marked completed by the running process whose row is not
\* yet in the committed store: a crash now makes the next run process them again
NotYetDurable ==
    {f \in DOMAIN db.channels : HasCompletedRow(db, f) /\ ~HasCompletedRow(disk, f)}

\* C19: at every point of a run, at most CommitEvery (100) conversations
\* marked completed by the run are missing from the committed store.
C19_BoundedReprocessing ==
    Cardinality(NotYetDurable) <= CommitEvery

\* the commit of the 100th folder has just made 100 rows durable, none of
\* which was durable before it
C19_Witness ==
    /\ pc = "loop"
    /\ runs = 1
    /\ processed_this_run = CommitEvery
    /\ Cardinality(DOMAIN disk.channels) = CommitEvery
    /\ NotYetDurable = {}
    /\ \A f \in DOMAIN disk.channels : disk.channels[f].message_count = 0

\* the orders in which os.listdir can enumerate the folders
Orders == {o \in [1..NumFolders -> Folders] : \A i, j \in 1..NumFolders : o[i] = o[j] => i = j}

\* run without interrupt on an empty store, the folders enumerated in order
RECURSIVE RunInOrder(_, _, _, _)
RunInOrder(a, order, i, m) ==
    IF i > Len(order) THEN Commit(a)
    ELSE LET r == process_folder(a, order[i], ConvOf(order[i]), m, NoIntr) IN
         RunInOrder(IF i % CommitEvery = 0 THEN Commit(r.a) ELSE r.a, order, i + 1, m)

\* the counts of a store: per conversation, per emote, per file extension
Counts(store) ==
    [channels |-> [f \in DOMAIN store.channels |->
                      <<store.channels[f].message_count,
                        store.channels[f].messages_with_attachments>>],
     emotes |-> [id \in DOMAIN store.emotes |-> store.emotes[id].usage_count],
     file_types |-> store.file_types]

\* C20: the message, attachment, emote and file-extension counts in the
\* committed store after a full run over an export are the counts a full run
\* leaves for every other order of enumerating the folders.
C20_CountsIndependentOfOrder ==
    (pc = "done" /\ runs = 1 /\ edits = 0) =>
        \A order \in Orders :
            Counts(RunInOrder(Analyzer(EmptyStore, EmptyStore), order, 1, store_messages).disk)
                = Counts(disk)

\* a full run has counted an emote that two conversations use and that the
\* two carry under different names
C20_Witness ==
    /\ pc = "done"
    /\ runs = 1
    /\ \E id \in CatalogueEmoteIds :
           /\ UsageIn(disk, id) >= 2
           /\ \A f \in Folders : HasCompletedRow(disk, f) /\ EmoteIncrement(ConvOf(f), id) > 0
           /\ \E f, g \in Folders :
                  Tally(ConvOf(f)).emote_names[id] # Tally(ConvOf(g)).emote_names[id]

\* among the first n messages, those with a non-empty attachment reference
RECURSIVE BearingAttachments(_, _)
BearingAttachments(messages, n) ==
    IF n = 0 \/ messages = << >> THEN 0
    ELSE (IF Head(messages).Attachments # << >> THEN 1 ELSE 0)
         + BearingAttachments(Tail(messages), n - 1)

\* C21: the messages_with_attachments stored for a scanned conversation is
\* the number of its counted target-year messages whose attachment reference
\* is not empty, whether or not an extension can be extracted from it.
C21_AttachmentBearingCount ==
    \A f \in Folders :
        (/\ edits = 0
         /\ HasCompletedRow(db, f)
         /\ Flushed(ConvOf(f))) =>
            db.channels[f].messages_with_attachments
                = BearingAttachments(ConvOf(f).messages, db.channels[f].message_count)

\* --- C22: the extension list, stated from the segments of the string
\* the positions of the separators (comma, newline), in ascending order
SeparatorsOf(str) == {i \in DOMAIN str : str[i] \in {",", "\n"}}

CutAt(str, k) ==
    IF k = 0 THEN 0
    ELSE IF k > Cardinality(SeparatorsOf(str)) THEN Len(str) + 1
    ELSE CHOOSE i \in SeparatorsOf(str) :
             Cardinality({j \in SeparatorsOf(str) : j < i}) = k - 1

\* segment k (from 1), trimmed of white space
SegmentOf(str, k) ==
    LET seg == SubSeq(str, CutAt(str, k - 1) + 1, CutAt(str, k) - 1)
        inked == {i \in DOMAIN seg : seg[i] \notin {" ", "\t", "\r", "\n"}}
    IN  IF inked = {} THEN << >>
        ELSE SubSeq(seg, CHOOSE i \in inked : \A j \in inked : i <= j,
                         CHOOSE i \in inked : \A j \in inked : i >= j)

\* the runs of a segment: <<i, j>> with a '.' at i, alphanumeric characters
\* from i + 1 to j, and a '?' or the end of the segment right after j
RunsOf(seg) ==
    {r \in (DOMAIN seg) \X (DOMAIN seg) :
        /\ seg[r[1]] = "."
        /\ r[2] > r[1]
        /\ \A k \in (r[1] + 1)..r[2] : IsAlnum(seg[k])
        /\ r[2] = Len(seg) \/ seg[r[2] + 1] = "?"}

Lowered(str) == [k \in DOMAIN str |-> LowerChar(str[k])]

\* the extensions of segments k.., the run of a segment chosen by its rank
\* among the runs ("first" or "final")
RECURSIVE ExtensionsFrom(_, _, _)
ExtensionsFrom(str, k, rank) ==
    IF k > Cardinality(SeparatorsOf(str)) + 1 THEN << >>
    ELSE LET seg == SegmentOf(str, k)
             runs_ == RunsOf(seg)
             r == IF rank = "first"
                  THEN CHOOSE x \in runs_ : \A y \in runs_ : x[1] <= y[1]
                  ELSE CHOOSE x \in runs_ : \A y \in runs_ : x[1] >= y[1]
         IN  (IF runs_ = {} THEN << >> ELSE <<Lowered(SubSeq(seg, r[1] + 1, r[2]))>>)
             \o ExtensionsFrom(str, k + 1, rank)

\* C22 (as stated): extract_file_types yields, for each trimmed non-empty
\* segment between commas and newlines, the lower-cased FINAL run of
\* alphanumeric characters that follows a '.' and is followed by '?' or the
\* end of the segment.
C22_FinalRunPerSegment ==
    call.fn = "extract_file_types" => call.ret = ExtensionsFrom(call.args, 1, "final")

\* C22 (amended): extract_file_types yields, for each trimmed non-empty
\* segment between commas and newlines, the lower-cased FIRST run of
\* alphanumeric characters that follows a '.' and is followed by '?' or the
\* end of the segment (nothing for a segment without such a run).
C22_FirstRunPerSegment ==
    call.fn = "extract_file_types" => call.ret = ExtensionsFrom(call.args, 1, "first")

\* a segment with a run before the '?' and another at its end: the first is taken
C22_Witness ==
    /\ call.fn = "extract_file_types"
    /\ call.args = <<".", "a", "?", ".", "B">>
    /\ call.ret = << <<"a">> >>

\* C23: the 'Unique Emotes Used' figure of the summary is the number of
\* distinct emote identities in the emotes table.
C23_UniqueEmotesIsDistinctCount ==
    call.fn = "print_results" =>
        call.ret.unique_emotes = Cardinality(DOMAIN call.args.emotes)

\* C24: a lookup mode or get_stats_data leaves every table of the store as it
\* was and does not create the store file; a lookup mode run without a store
\* file reports that the database was not found.
C24_ReadPathsDoNotMutate ==
    [][(call.fn = "none" /\ call'.fn # "none") =>
          /\ disk' = disk
          /\ db_file' = db_file
          /\ (~db_file) => call'.ret.status = "Database not found"]_vars

\* a lookup has found rows in a store that a run has filled
C24_Witness ==
    /\ call.fn \in Modes
    /\ db_file
    /\ call.ret.status = "rows"
    /\ call.ret.rows # {}
    /\ disk.channels # EmptyFn
    /\ runs = 1

\* the two files of the conversation exist and parse, and its newest message
\* carries a timestamp that strptime accepts
NewestParses(conv) ==
    /\ Readable(conv)
    /\ conv.messages # << >>
    /\ conv.messages[1].dict
    /\ StrptimeOk(conv.messages[1].Timestamp)

\* C25: when a run without interrupt has ended, process_folder has been called
\* once for every candidate folder, and every conversation whose two files
\* exist and parse and whose newest timestamp parses is committed as completed.
C25_RunCompletesEveryReadableConversation ==
    pc = "done" =>
        /\ processed_this_run = Len(all_folders)
        /\ Range(all_folders) = Folders
        /\ \A f \in Folders : NewestParses(ConvOf(f)) => HasCompletedRow(disk, f)

\* C26: across runs, interrupts and restarts the committed usage_count of an
\* emote never decreases, and an emote entry once committed is never removed.
C26_DurableEmoteCountsNeverDecrease ==
    [][\A id \in DOMAIN disk.emotes :
          /\ id \in DOMAIN disk'.emotes
          /\ disk'.emotes[id].usage_count >= disk.emotes[id].usage_count]_vars

\* a run interrupted after its first commit, then a second run that has added
\* to the committed count of the same emote
C26_Witness ==
    /\ runs = 2
    /\ prev.kind = "interrupt"
    /\ pc = "done"
    /\ "9" \in DOMAIN disk.emotes
    /\ disk.emotes["9"].usage_count = 2
    /\ disk.emotes["9"].emote_name = "hi"

\* the messages the scan counts: those in front of the first one that is not
\* of the target year
RECURSIVE CountedPrefix(_)
CountedPrefix(messages) ==
    IF messages = << >> \/ ~Head(messages).dict THEN << >>
    ELSE IF Head(messages).Timestamp.fmt /\ Head(messages).Timestamp.year = TARGET_YEAR
         THEN <<Head(messages)>> \o CountedPrefix(Tail(messages))
         ELSE << >>

RECURSIVE EmoteSeen(_, _)
EmoteSeen(messages, id) ==
    IF messages = << >> THEN 0
    ELSE TokensIn(Head(messages).Contents, id) + EmoteSeen(Tail(messages), id)

RECURSIVE ExtSeen(_, _)
ExtSeen(messages, ext) ==
    IF messages = << >> THEN 0
    ELSE LET exts == extract_file_types(Head(messages).Attachments) IN
         Cardinality({i \in DOMAIN exts : exts[i] = ext}) + ExtSeen(Tail(messages), ext)

CallsFor(calls, fn, key) == {i \in DOMAIN calls : calls[i].fn = fn /\ calls[i].key = key}

\* C27: when process_folder flushes a scanned conversation it makes one
\* update_emote_count call for each emote identity seen and one
\* update_file_type_count call for each extension seen, each carrying the
\* number of occurrences in the counted messages; these calls are what the
\* step does to the two tables, and an interrupt at the end of the scan finds
\* none of them made.
C27_AggregatedFlush ==
    [][\A f \in Folders :
          (Processes(f) /\ ~AlreadyProcessed(db, f) /\ Flushed(ConvOf(f))) =>
              LET conv == ConvOf(f)
                  counted == CountedPrefix(conv.messages)
                  calls == FlushCalls(Scan(ScanStart(db.messages), f, conv.messages, 1,
                                           store_messages, NoIntr))
                  stopped == process_folder(Current, f, conv, store_messages,
                                            StopAt("scanned"))
              IN  /\ \A id \in CatalogueEmoteIds :
                         IF EmoteSeen(counted, id) > 0
                         THEN \E i \in DOMAIN calls :
                                  /\ CallsFor(calls, "update_emote_count", id) = {i}
                                  /\ calls[i].count = EmoteSeen(counted, id)
                         ELSE CallsFor(calls, "update_emote_count", id) = {}
                  /\ \A ext \in CatalogueExts :
                         IF ExtSeen(counted, ext) > 0
                         THEN \E i \in DOMAIN calls :
                                  /\ CallsFor(calls, "update_file_type_count", ext) = {i}
                                  /\ calls[i].count = ExtSeen(counted, ext)
                         ELSE CallsFor(calls, "update_file_type_count", ext) = {}
                  /\ \A i \in DOMAIN calls :
                         IF calls[i].fn = "update_emote_count"
                         THEN calls[i].key \in CatalogueEmoteIds
                         ELSE calls[i].key \in CatalogueExts
                  /\ db'.emotes = ApplyCalls(db, calls).emotes
                  /\ db'.file_types = ApplyCalls(db, calls).file_types
                  /\ stopped.outcome = "interrupted"
                  /\ stopped.a.db.emotes = db.emotes
                  /\ stopped.a.db.file_types = db.file_types]_vars

\* the conversation with one emote used twice in a message and two
\* extensions has been flushed into a store that already held that emote
C27_Witness ==
    /\ pc = "loop"
    /\ processed_this_run = 2
    /\ fs[all_folders[1]] = 3
    /\ fs[all_folders[2]] = 5
    /\ runs = 1
    /\ UsageIn(db, "9") = 3
    /\ CountIn(db.file_types, <<"p", "n", "g">>) = 1
    /\ CountIn(db.file_types, <<"j", "p", "g">>) = 1

\* C28: update_emote_count(name, id, delta) creates the entry with
\* usage_count = delta when the identity is absent, and otherwise adds delta to
\* its usage_count and sets its emote_name to the given name; every other
\* emote entry and every other table is as before.
C28_UpdateEmoteCountSemantics ==
    call.fn = "update_emote_count" =>
        LET before == call.args.store
            after == call.ret
            id == call.args.emote_id
        IN  /\ DOMAIN after.emotes = DOMAIN before.emotes \cup {id}
            /\ after.emotes[id].usage_count =
                   (IF id \in DOMAIN before.emotes THEN before.emotes[id].usage_count ELSE 0)
                   + call.args.count
            /\ after.emotes[id].emote_name = call.args.emote_name
            /\ \A other \in DOMAIN before.emotes \ {id} :
                   after.emotes[other] = before.emotes[other]
            /\ after.channels = before.channels
            /\ after.file_types = before.file_types
            /\ after.messages = before.messages
            /\ after.users = before.users

\* a call on an identity already present under another name, beside an entry
\* of another identity
C28_Witness ==
    /\ call.fn = "update_emote_count"
    /\ call.args.emote_id = "9"
    /\ call.args.emote_name = "hi"
    /\ call.args.count = 2
    /\ DOMAIN call.args.store.emotes = {"7", "9"}
    /\ call.args.store.emotes["9"] = [emote_name |-> "wave", usage_count |-> 1]
    /\ call.ret.emotes["9"] = [emote_name |-> "hi", usage_count |-> 3]

\* the two lists have the same members, each as many times
SameMembers(l1, l2) ==
    \A r \in Range(l1) \cup Range(l2) :
        Cardinality({i \in DOMAIN l1 : l1[i] = r}) = Cardinality({i \in DOMAIN l2 : l2[i] = r})

RecordsKept(before, after) ==
    \A id \in DOMAIN before : id \in DOMAIN after /\ after[id] = before[id]

\* the record is that of a message the scan of its folder counts
RecordOfCounted(id, row) ==
    /\ row.year = TARGET_YEAR
    /\ row.timestamp.fmt
    /\ \E m \in Range(CountedPrefix(ConvOf(row.folder_name).messages)) :
           m.ID = id /\ row = MessageRow(row.folder_name, m)

\* C30: storing a message whose identity the messages table already holds
\* leaves the record as it was, in the open connection while the run goes on
\* and in the committed store always; every record is that of a message
\* counted as a target-year message, and there is none unless a run was
\* asked to store messages.
C30_MessagesInsertIfAbsent ==
    [][/\ RecordsKept(disk.messages, disk'.messages)
       /\ (pc = "loop" /\ pc' = "loop") => RecordsKept(db.messages, db'.messages)
       /\ edits' = 0 =>
              \A id \in DOMAIN db'.messages : RecordOfCounted(id, db'.messages[id])
       /\ (DOMAIN db'.messages # DOMAIN db.messages /\ pc = "loop" /\ pc' = "loop")
              => store_messages]_vars

\* the same message identity met in two folders of one run that stores
\* messages: the record of the first folder stands
C30_Witness ==
    /\ pc = "loop"
    /\ store_messages
    /\ runs = 1
    /\ processed_this_run = 2
    /\ fs[all_folders[1]] = 3
    /\ fs[all_folders[2]] = 3
    /\ HasCompletedRow(db, all_folders[2])
    /\ db.channels[all_folders[2]].message_count = 1
    /\ DOMAIN db.messages = {"m31"}
    /\ db.messages["m31"].folder_name = all_folders[1]

\* C31: processing a multi-party conversation or a community channel leaves
\* the users table as it was, whatever the index holds for the channel.
C31_GroupsAreNeverMapped ==
    (call.fn = "map_username" /\ call.args.channel_data.type # "DM") =>
        call.ret = call.args.users

\* a multi-party conversation of three that the index labels, met with a
\* users table that already has an entry
C31_Witness ==
    /\ call.fn = "map_username"
    /\ call.args.channel_data.type = "GROUP_DM"
    /\ call.args.channel_data.id = "d3"
    /\ call.args.channel_data.recipients.list = <<1, 2, 3>>
    /\ "d3" \in DOMAIN call.args.index_data
    /\ call.args.index_data["d3"] = Label(TRUE, "Alice", TRUE)
    /\ call.args.users = Put(EmptyFn, 2, "Bob")
    /\ call.ret = Put(EmptyFn, 2, "Bob")

\* C32: when process_folder meets a descriptor of an unexpected shape it adds
\* one to the error tally and to no other tally, leaves every table of the
\* store as it was before the call, does not mark the conversation completed,
\* and the run goes on with the next folder.
C32_MalformedContentIsSoftFailure ==
    [][\A f \in Folders :
          (/\ Processes(f)
           /\ ~AlreadyProcessed(db, f)
           /\ Readable(ConvOf(f))
           /\ ~WellFormedDescriptor(ConvOf(f).channel)) =>
              /\ error_count' = error_count + 1
              /\ processed_count' = processed_count
              /\ skipped_count' = skipped_count
              /\ db' = db
              /\ ~HasCompletedRow(db', f)
              /\ pc' = "loop"]_vars

\* C33: in every progress line of run the done figure is at most the number
\* of folders and the remaining figure is not negative, on a resumed run too.
C33_ProgressWithinTotal ==
    ProgressPrinted =>
        /\ ProgressLine.done <= ProgressLine.total_folders
        /\ ProgressLine.remaining >= 0

\* the row's attachment count lies between 0 and its message count
CountsBounded(row) ==
    /\ 0 <= row.messages_with_attachments
    /\ row.messages_with_attachments <= row.message_count

\* C34: every channels row, pending or committed, has
\* 0 <= messages_with_attachments <= message_count, and both are 0 in the row
\* of a conversation of which the scan counts no message (empty list, newest
\* message of an earlier year, no target-year message found).
C34_AttachmentCountBounded ==
    /\ \A f \in DOMAIN disk.channels : CountsBounded(disk.channels[f])
    /\ \A f \in DOMAIN db.channels :
           /\ CountsBounded(db.channels[f])
           /\ (edits = 0 /\ CountedPrefix(ConvOf(f).messages) = << >>) =>
                  /\ db.channels[f].message_count = 0
                  /\ db.channels[f].messages_with_attachments = 0

\* a committed store with the row of a conversation of two counted messages,
\* one of them with an extension, beside the row of an empty conversation
C34_Witness ==
    /\ pc = "done"
    /\ runs = 1
    /\ fs[1] = 8
    /\ fs[2] = 1
    /\ DOMAIN disk.channels = {1, 2}
    /\ disk.channels[1].message_count = 2
    /\ disk.channels[1].messages_with_attachments = 1
    /\ disk.channels[2].message_count = 0
    /\ disk.channels[2].messages_with_attachments = 0

\* every row of the table carries processed = 1
AllRowsFlagged(store) == \A f \in DOMAIN store.channels : store.channels[f].processed = 1

\* C35: every channels row, pending or committed, has processed = 1; a folder
\* the first run has not reached has no row, and a folder whose processing
\* ended in the error tally has none after the call.
C35_RowOnlyForCompleted ==
    [][/\ AllRowsFlagged(db') /\ AllRowsFlagged(disk')
       /\ (pc' = "loop" /\ runs' = 1) =>
              \A i \in DOMAIN all_folders' :
                  i > processed_this_run' => all_folders'[i] \notin DOMAIN db'.channels
       /\ \A f \in Folders :
              (Processes(f) /\ error_count' # error_count) => f \notin DOMAIN db'.channels]_vars

\* a run has ended with the row of a completed conversation committed and no
\* row for the conversation whose processing failed
C35_Witness ==
    /\ pc = "done"
    /\ runs = 1
    /\ fs[1] = 3
    /\ fs[2] = 9
    /\ error_count = 1
    /\ DOMAIN disk.channels = {1}
    /\ disk.channels[1].processed = 1

\* C36: a process_folder call on a conversation not yet completed adds one to
\* exactly one of processed_count, skipped_count and error_count and nothing
\* to the other two; a call on a completed conversation adds nothing.
C36_TalliesPartitionTheWork ==
    call.fn = "process_folder" =>
        LET a == call.ret.a
            added == <<a.processed_count, a.skipped_count, a.error_count>>
        IN  IF call.args.completed
            THEN added = <<0, 0, 0>>
            ELSE added \in {<<1, 0, 0>>, <<0, 1, 0>>, <<0, 0, 1>>}

\* the analyzer as the earlier generation has it: no users table
WithoutUsers(a) == [a EXCEPT !.db.users = EmptyFn, !.disk.users = EmptyFn]

\* C37: from every state a sequence of runs reaches, one process_folder call
\* of ExtractData_v4, run to its end or interrupted at any statement boundary,
\* leaves the channels, emotes, file_types and messages tables (pending and
\* committed) and the tallies that the call of ExtractData_v3 leaves when
\* started from the same state without the users table; the users table is
\* the only difference.
C37_DriverGenerationsAgree ==
    (pc = "loop" /\ processed_this_run < Len(all_folders)) =>
        \A intr \in {NoIntr, StopAt("scanned"), StopAt("flushed"), StopAt("marked")} :
            LET folder_name == all_folders[processed_this_run + 1]
                v4 == process_folder(Current, folder_name, ConvOf(folder_name),
                                     store_messages, intr)
                v3 == process_folder_v3(WithoutUsers(Current), folder_name,
                                        ConvOf(folder_name), store_messages, intr)
            IN  /\ v3.outcome = v4.outcome
                /\ v3.a = WithoutUsers(v4.a)

\* a run that stores messages has completed a one-to-one conversation the
\* index labels and is about to process a one-to-one conversation whose
\* label lacks the prefix
C37_Witness ==
    /\ pc = "loop"
    /\ runs = 1
    /\ store_messages
    /\ processed_this_run = 1
    /\ fs[all_folders[1]] = 3
    /\ fs[all_folders[2]] = 10
    /\ HasCompletedRow(disk, all_folders[1])
    /\ ~HasCompletedRow(db, all_folders[2])

\* C38: store_user_mapping(identity, name) leaves the users table as it was
\* when the identity or the name is empty; otherwise the entry of the
\* identity holds the given name afterwards, whatever it held before, and
\* every other entry is as before.
C38_IdentityMappingUpsert ==
    call.fn = "store_user_mapping" =>
        LET before == call.args.users
            after == call.ret
            id == call.args.user_id
        IN  IF id = 0 \/ call.args.username = ""
            THEN after = before
            ELSE /\ DOMAIN after = DOMAIN before \cup {id}
                 /\ after[id] = call.args.username
                 /\ \A other \in DOMAIN before \ {id} : after[other] = before[other]

\* a call that gives an identity already mapped another name, beside the
\* entry of another identity
C38_Witness ==
    /\ call.fn = "store_user_mapping"
    /\ call.args.users = [id \in {1, 2} |-> "Bob"]
    /\ call.args.user_id = 2
    /\ call.args.username = "Alice"
    /\ call.ret = [id \in {1, 2} |-> IF id = 2 THEN "Alice" ELSE "Bob"]

====
